---- MODULE Spec2Model ----
(***************************************************************************)
(* Tiered media store of pictallion (src-tauri/src-tauri/src/lib.rs) and   *)
(* the stub IPC layer (src-tauri/src/ipc.rs, photo.rs).                    *)
(*                                                                         *)
(* State: the media file tree (files), the photos table (photos), the     *)
(* thumbnail cache (thumbs), the wall clock (now) and, for every caller,   *)
(* the position of its running command (pc), the command's arguments and  *)
(* locals (loc) and its return value (result).                             *)
(*                                                                         *)
(* A command is a sequence of steps: its first step runs from the entry    *)
(* to its first catalog query (what precedes the query touches nothing     *)
(* shared), and every later filesystem call or catalog statement is a      *)
(* step of its own, so that concurrent commands interleave where the       *)
(* async runtime lets them.  unique_path is one step.                      *)
(*                                                                         *)
(* The environment may make a write fail (copy, rename, remove, INSERT,    *)
(* UPDATE, DELETE), at most MaxFaults times in a run; a SELECT or the read *)
(* of a source file may fail at any time.  A run is a bounded number of    *)
(* commands; the clock advances in ClockSpec only.                         *)
(*                                                                         *)
(* snap and prev are history variables of the sequential specifications:  *)
(* the files and catalog a command started from, and the last successful   *)
(* promotion of the caller.  bulk is the loop state of a bulk command.     *)
(*                                                                         *)
(* Specifications: Spec (two callers, commands interleave), SeqSpec (one   *)
(* caller), LibSpec (one caller, with the album, tag and face commands),   *)
(* BulkSpec (one caller, ingest and the bulk commands), IngestSpec (one    *)
(* caller, add_photo on files of one name), UniqueSpec (unique_path        *)
(* applied to directory listings), ClockSpec (one caller, ingest, promotion *)
(* and deletion while the clock advances), SetupSpec (the setup of run and *)
(* then one caller: ingest, promotion and generate_thumbnail), ResizeSpec  *)
(* (resize_keep_aspect applied to image sizes), DetectSpec (detect_bursts  *)
(* and detect_duplicates applied to catalogs), TrashSpec (two callers,     *)
(* delete_photo on a catalog of two photos), BulkAddSpec (one caller,      *)
(* bulk_add_photos), FsSpec (create_tier_dir and move_file_to_tier of      *)
(* fs.rs), DbSpec (Db::new of db.rs on one database).                      *)
(***************************************************************************)
EXTENDS Integers, Sequences, FiniteSets, TLC

VARIABLES files, photos, thumbs, nextId, now, calls, faults, pc, loc, result, snap, prev,
          album_photos, photo_tags, faces, bulk, dirs, mtime, out, db

\* the tables beside photos, and the loop state of a running bulk command
libVars == <<album_photos, photo_tags, faces>>

\* the directories that exist, the modification times of the files, the
\* value a query command returned, and the database Db::new opens
envVars == <<dirs, mtime, out, db>>

vars == <<files, photos, thumbs, nextId, now, calls, faults, pc, loc, result, snap, prev,
          album_photos, photo_tags, faces, bulk, dirs, mtime, out, db>>

(***************************************************************************)
(* Bounds of the model.                                                    *)
(***************************************************************************)
\* number of photo ids (uuids) drawn, one per add_photo call
MaxPhotos == 2
\* number of failures of a write (copy, rename, remove, INSERT, UPDATE, DELETE)
\* the environment injects in one run
MaxFaults == 1
\* number of commands the concurrent callers invoke in one run
MaxCalls == 3
\* number of commands the sequential caller invokes in one run
MaxSeqCalls == 4

\* length of the id list handed to a bulk command
MaxBulk == 2
\* number of files of one name ingested in a row
MaxIngest == 3
\* number of seconds the clock advances in one run
MaxClock == 2
\* number of photos in the catalog handed to detect_bursts and detect_duplicates
MaxDetect == 3
\* the directory listings unique_path is tried on have any subset of the
\* candidates 1..MaxUsed taken (beside the nearly full and full listings)
MaxUsed == 4

\* callers that invoke commands concurrently
Procs == {"c1", "c2"}
\* the single caller of the sequential specification
SeqProcs == {"c1"}

\* byte contents: a decodable image, a file that is no image, and the bytes
\* left by a copy that failed part-way
ImageBytes == "image"
OtherBytes == "other"
PartialBytes == "partial"
\* source files offered to add_photo: a.jpg, b.jpg with the same bytes, and an
\* a.jpg of another folder with different bytes
Sources == { [stem |-> "a", ext |-> "jpg", bytes |-> ImageBytes],
             [stem |-> "b", ext |-> "jpg", bytes |-> ImageBytes],
             [stem |-> "a", ext |-> "jpg", bytes |-> OtherBytes] }
PhotoIds == 1..MaxPhotos
\* a third content, for the files that share the name a.jpg
ThirdBytes == "third"
\* source files of one name, a.jpg, with pairwise different bytes, each in a
\* folder of its own
SameNameSources == { [stem |-> "a", ext |-> "jpg", bytes |-> b] :
                        b \in {ImageBytes, OtherBytes, ThirdBytes} }

(***************************************************************************)
(* Tier directory layout and paths.                                        *)
(***************************************************************************)
\* lib.rs:444  let valid = ["bronze", "silver", "gold", "archive"];
valid == {"bronze", "silver", "gold", "archive"}
\* tier strings a caller may pass: the valid ones and one that is not
TierInputs == valid \cup {"platinum"}

\* lib.rs:251  root.join(tier), root = data/media
tier_dir(tier) == <<"data", "media", tier>>
\* lib.rs:566  Path::new("data").join("trash")
trash_dir == <<"data", "trash">>
\* lib.rs:614  Path::new("data").join("cache").join("thumbs")
thumbs_dir == <<"data", "cache", "thumbs">>
\* lib.rs:39-53  the directories a setup that met no failure has created
SetupDirs == {tier_dir(tier) : tier \in valid} \cup {trash_dir}

\* a file name: stem, numbered suffixes " (i)" appended by unique_path, extension
FileName(f) == [stem |-> f.stem, sfx |-> <<>>, ext |-> f.ext]
\* dir.join(filename)
join(dir, name) == [dir |-> dir, name |-> name]
NoPath == [dir |-> <<>>, name |-> [stem |-> "", sfx |-> <<>>, ext |-> ""]]

\* Path::exists
exists(path) == path \in DOMAIN files

\* lib.rs:280  for i in 1..1000
ProbeLimit == 999

\* lib.rs:281-285  target.with_file_name(format!("{} ({}).{}", stem, i, ext))
candidate(target, i) ==
    [target EXCEPT !.name.sfx = Append(@, i)]

\* a probing loop with an inclusive bound, for i in 1..=1000
probe_inclusive(target, i) ==
    LET free == {j \in i..(ProbeLimit + 1) : ~exists(candidate(target, j))} IN
    IF free = {} THEN target
    ELSE candidate(target, CHOOSE j \in free : \A k \in free : j <= k)

\* lib.rs:280-290  the probing loop of unique_path, entered at number i: it
\* returns the candidate of the first number from i up to ProbeLimit that does
\* not exist, and target when the loop runs to its end
probe(target, i) ==
    LET free == {j \in i..ProbeLimit : ~exists(candidate(target, j))} IN
    IF free = {} THEN target
    ELSE candidate(target, CHOOSE j \in free : \A k \in free : j <= k)

\* a unique_path without the early return for a free target
unique_path_always_numbered(target) == probe(target, 1)

\* lib.rs:271-291
unique_path(target) ==
    IF ~exists(target) THEN target ELSE probe(target, 1)

\* lib.rs:255-269  the digest is a function of the bytes alone
sha256_file(content) == <<"sha256", content>>

\* lib.rs:244-249
now_ts == now

(***************************************************************************)
(* Filesystem primitives.                                                  *)
(***************************************************************************)
\* std::fs::copy: creates or truncates dst and writes the bytes
fs_write(dst, bytes) ==
    [q \in DOMAIN files \cup {dst} |-> IF q = dst THEN bytes ELSE files[q]]

\* a move that creates the destination but does not carry the bytes over
fs_rename_truncating(src, dst) ==
    [q \in (DOMAIN files \ {src}) \cup {dst} |->
        IF q = dst THEN PartialBytes ELSE files[q]]

\* std::fs::rename: atomically replaces dst; renaming a file to itself is a no-op
fs_rename(src, dst) ==
    IF src = dst THEN files
    ELSE [q \in (DOMAIN files \ {src}) \cup {dst} |->
             IF q = dst THEN files[src] ELSE files[q]]

\* std::fs::remove_file
fs_remove(path) == [q \in DOMAIN files \ {path} |-> files[q]]

(***************************************************************************)
(* The photos table.                                                       *)
(***************************************************************************)
NULL == <<>>
Some(v) == <<v>>

\* lib.rs:324-333  the row written by add_photo
NewRow(id, original, storage, hash, ts) ==
    [id |-> id, original_path |-> original, storage_path |-> storage,
     tier |-> "bronze", hash |-> hash, created_at |-> ts, updated_at |-> ts,
     deleted_at |-> NULL]

\* lib.rs:308  SELECT id FROM photos WHERE hash = ? LIMIT 1
SelectIdByHash(hash) == {i \in DOMAIN photos : photos[i].hash = hash}

\* lib.rs:451, 549  SELECT storage_path FROM photos WHERE id = ?
SelectStoragePath(id) == {photos[i].storage_path : i \in DOMAIN photos \cap {id}}

\* lib.rs:350  SELECT ... FROM photos WHERE deleted_at IS NULL
list_photos == {i \in DOMAIN photos : photos[i].deleted_at = NULL}

\* the photos table of the initial schema: id is the primary key, and no
\* UNIQUE constraint is put on hash (dedup is done by add_photo alone)
SchemaAccepts(row) == row.id \notin DOMAIN photos

\* lib.rs:324-336  INSERT INTO photos (...) VALUES (...)
InsertRow(row) ==
    [i \in DOMAIN photos \cup {row.id} |-> IF i = row.id THEN row ELSE photos[i]]

\* an UPDATE whose WHERE clause was left out: it rewrites every row
UpdatePromotedEveryRow(id, path, tier, ts) ==
    [i \in DOMAIN photos |->
        [photos[i] EXCEPT !.storage_path = path, !.tier = tier, !.updated_at = ts]]

\* lib.rs:470  UPDATE photos SET storage_path = ?, tier = ?, updated_at = ? WHERE id = ?
UpdatePromoted(id, path, tier, ts) ==
    [i \in DOMAIN photos |->
        IF i = id
        THEN [photos[i] EXCEPT !.storage_path = path, !.tier = tier, !.updated_at = ts]
        ELSE photos[i]]

\* an UPDATE that records the trash path but leaves deleted_at NULL
UpdateTrashedPathOnly(id, path, ts) ==
    [i \in DOMAIN photos |->
        IF i = id THEN [photos[i] EXCEPT !.storage_path = path] ELSE photos[i]]

\* lib.rs:572  UPDATE photos SET storage_path = ?1, deleted_at = ?2 WHERE id = ?3
UpdateTrashed(id, path, ts) ==
    [i \in DOMAIN photos |->
        IF i = id
        THEN [photos[i] EXCEPT !.storage_path = path, !.deleted_at = Some(ts)]
        ELSE photos[i]]

\* lib.rs:558  DELETE FROM photos WHERE id = ?1
DeleteRow(id) == [i \in DOMAIN photos \ {id} |-> photos[i]]

(***************************************************************************)
(* Return values of the commands.                                          *)
(***************************************************************************)
OkAdded == "Photo added successfully"
OkDuplicate == "Duplicate photo detected (hash match); skipped"
OkPromoted == "Photo promoted"
OkTrashed == "Photo moved to trash"
OkDeleted == "Photo permanently deleted"
OkStubPromoted == "Promoted photo"
ErrInvalidPath == "Err: Invalid file path"
ErrInvalidTier == "Err: Invalid tier"
ErrNotFound == "Err: Photo not found"
ErrIo == "Err: io"
\* the io error of sha256_file: the source cannot be opened or read
ErrRead == "Err: io (read)"
ErrDb == "Err: db"
Panic == "panic"

OkAddedToAlbum == "Added to album"
OkRemovedFromAlbum == "Removed from album"
OkTagAssigned == "Tag assigned"
OkTagRemoved == "Tag removed"
OkDetectionsSaved == "Detections saved"
OkAssignmentUpdated == "Assignment updated"
\* "promote_photos_bulk: ok={}, fail={}", "delete_photos_bulk: ok={}, fail={}",
\* "assign_tag_bulk: ok={}": the counts are bulk[p].ok and bulk[p].fail
OkBulk == "bulk: counts"
\* Ok(thumb_path) of generate_thumbnail, Ok(()) of the setup of run
OkThumbnail == "thumbnail path"
OkSetup == "setup done"
\* Ok(groups) of detect_bursts and detect_duplicates: the groups are in out
OkGroups == "groups"
\* the results that are an Err(..) of the command
IsErr(r) == r \in {ErrInvalidPath, ErrInvalidTier, ErrNotFound, ErrIo, ErrRead, ErrDb}

(***************************************************************************)
(* Callers.                                                                *)
(***************************************************************************)
NoLoc == [op |-> "none", name |-> FileName([stem |-> "", ext |-> ""]),
          bytes |-> PartialBytes, hash |-> <<>>, id |-> 0, tier |-> "",
          permanent |-> FALSE, src |-> NoPath, dst |-> NoPath,
          w |-> 0, h |-> 0, max_dim |-> 0, i |-> 0]
NoSnap == [taken |-> FALSE, files |-> <<>>, photos |-> <<>>, faults |-> 0]
NoPrev == [op |-> "none", id |-> 0, tier |-> "", result |-> "", snap |-> NoSnap]
\* no bulk command is running: ids is the id list, i the index of the next
\* item, ok and fail the counters, log the ids and results of the items done
\* db.rs:13-37  the database file behind the URL of Db::new before anything
\* was run on it: migration_sql is the list of the tables the statements of
\* the migration file create, applied the tables that exist, url, before and
\* executed the argument of the running call, the tables that existed when
\* it began and the number of statements it has executed
NoDb == [migration_sql |-> <<>>, applied |-> {}, url |-> "", before |-> {},
         executed |-> 0]

NoBulk == [op |-> "none", ids |-> <<>>, i |-> 0, ok |-> 0, fail |-> 0, tier |-> "",
           permanent |-> FALSE, tag |-> "", log |-> <<>>]

\* the state a command starts from, recorded by the sequential specification
TakeSnap(seq) ==
    IF seq THEN [taken |-> TRUE, files |-> files, photos |-> photos, faults |-> faults]
    ELSE NoSnap

Init ==
    /\ files = <<>>
    /\ photos = <<>>
    /\ thumbs = {}
    /\ nextId = 1
    /\ now = 0
    /\ calls = 0
    /\ faults = 0
    /\ pc = [p \in Procs |-> "idle"]
    /\ loc = [p \in Procs |-> NoLoc]
    /\ result = [p \in Procs |-> ""]
    /\ snap = [p \in Procs |-> NoSnap]
    /\ prev = [p \in Procs |-> NoPrev]
    /\ album_photos = {}
    /\ photo_tags = {}
    /\ faces = {}
    /\ bulk = [p \in Procs |-> NoBulk]
    /\ dirs = SetupDirs
    /\ mtime = <<>>
    /\ out = <<>>
    /\ db = NoDb

\* caller p invokes a command; a run is a bounded number of invocations
Invoke(p, seq) ==
    /\ pc[p] = "idle"
    /\ calls < (IF seq THEN MaxSeqCalls ELSE MaxCalls)
    /\ calls' = calls + 1
    /\ snap' = [snap EXCEPT ![p] = TakeSnap(seq)]
    /\ UNCHANGED <<prev, faults>>

\* a command returns: the caller sees result[p]
Finish(p, r) ==
    /\ pc' = [pc EXCEPT ![p] = "done"]
    /\ result' = [result EXCEPT ![p] = r]

\* the environment makes a write fail
Fault ==
    /\ faults < MaxFaults
    /\ faults' = faults + 1

Goto(p, label) ==
    /\ pc' = [pc EXCEPT ![p] = label]
    /\ UNCHANGED result

\* the caller has consumed the return value and may invoke the next command
Return(p) ==
    /\ pc[p] = "done"
    /\ bulk[p].op = "none"
    /\ pc' = [pc EXCEPT ![p] = "idle"]
    /\ prev' = [prev EXCEPT ![p] =
                   IF snap[p].taken /\ result[p] = OkPromoted
                   THEN [op |-> loc[p].op, id |-> loc[p].id, tier |-> loc[p].tier,
                         result |-> result[p], snap |-> snap[p]]
                   ELSE NoPrev]
    /\ loc' = [loc EXCEPT ![p] = NoLoc]
    /\ result' = [result EXCEPT ![p] = ""]
    /\ snap' = [snap EXCEPT ![p] = NoSnap]
    /\ UNCHANGED <<files, photos, thumbs, nextId, now, calls, faults>>
    /\ UNCHANGED <<libVars, bulk, envVars>>

(***************************************************************************)
(* generate_thumbnail, lib.rs:600-638.                                     *)
(***************************************************************************)
\* lib.rs:608-612, 628  the row exists and image::open decodes its file
ThumbnailSource(id) ==
    {s \in SelectStoragePath(id) : exists(s) /\ files[s] = ImageBytes}

\* a cache path that carries the requested size beside the id
thumb_path_sized(photo_id, max_dim) ==
    [dir |-> thumbs_dir, name |-> [id |-> photo_id, sfx |-> <<max_dim>>, ext |-> "jpg"]]

\* lib.rs:623  thumbs_dir.join(format!("{photo_id}.jpg"))
thumb_path(photo_id, max_dim) ==
    [dir |-> thumbs_dir, name |-> [id |-> photo_id, sfx |-> <<>>, ext |-> "jpg"]]

\* lib.rs:339  generate_thumbnail(app.clone(), id.clone(), Some(512))
IngestThumbSize == 512

(***************************************************************************)
(* add_photo, lib.rs:293-345.                                              *)
(***************************************************************************)
\* a dedup lookup that skips the rows in the trash
DedupLookupActiveOnly(hash) ==
    {i \in SelectIdByHash(hash) : photos[i].deleted_at = NULL}

\* lib.rs:308  the dedup lookup of add_photo
DedupLookup(hash) == SelectIdByHash(hash)

\* lib.rs:299-315  add_photo of source file f under the fresh uuid id: the
\* file name of the source path, sha256_file(&src) and the dedup lookup
AddPhotoBegin(p, id, f) ==
    /\ loc' = [loc EXCEPT ![p] = [NoLoc EXCEPT !.op = "add_photo",
                  !.id = id, !.name = FileName(f), !.bytes = f.bytes,
                  !.hash = sha256_file(f.bytes),
                  !.dst = join(tier_dir("bronze"), FileName(f))]]
    /\ \/ \* the source cannot be opened or read
          Finish(p, ErrRead)
       \/ \* the SELECT fails
          Finish(p, ErrDb)
       \/ IF DedupLookup(sha256_file(f.bytes)) # {}
          THEN Finish(p, OkDuplicate)
          ELSE Goto(p, "add_unique_path")

\* lib.rs:294-315  a caller invokes add_photo
AddPhotoStart(p, seq) ==
    /\ Invoke(p, seq)
    /\ nextId <= MaxPhotos
    /\ nextId' = nextId + 1
    /\ \/ \* src.file_name() is None
          /\ loc' = [loc EXCEPT ![p] = [NoLoc EXCEPT !.op = "add_photo", !.id = nextId]]
          /\ Finish(p, ErrInvalidPath)
       \/ \E f \in Sources : AddPhotoBegin(p, nextId, f)
    /\ UNCHANGED <<files, photos, thumbs, now>>
    /\ UNCHANGED <<libVars, bulk, envVars>>

\* an ingest that copies to dest_path without asking unique_path
AddPhotoSkipUniquePath(p) ==
    /\ pc[p] = "add_unique_path"
    /\ Goto(p, "add_copy")
    /\ UNCHANGED <<files, photos, thumbs, nextId, now, calls, faults, loc, snap, prev>>
    /\ UNCHANGED <<libVars, bulk, envVars>>

\* lib.rs:318
AddPhotoUniquePath(p) ==
    /\ pc[p] = "add_unique_path"
    /\ loc' = [loc EXCEPT ![p].dst = unique_path(loc[p].dst)]
    /\ Goto(p, "add_copy")
    /\ UNCHANGED <<files, photos, thumbs, nextId, now, calls, faults, snap, prev>>
    /\ UNCHANGED <<libVars, bulk, envVars>>

\* an ingest that goes on to the INSERT when the copy failed
AddPhotoCopyIgnoringFailure(p) ==
    /\ pc[p] = "add_copy"
    /\ \/ /\ Fault
          /\ UNCHANGED files
       \/ /\ Fault
          /\ files' = fs_write(loc[p].dst, PartialBytes)
       \/ /\ files' = fs_write(loc[p].dst, loc[p].bytes)
          /\ UNCHANGED faults
    /\ Goto(p, "add_insert")
    /\ UNCHANGED <<photos, thumbs, nextId, now, calls, loc, snap, prev>>
    /\ UNCHANGED <<libVars, bulk, envVars>>

\* lib.rs:319  std::fs::copy(&src, &final_path)
AddPhotoCopy(p) ==
    /\ pc[p] = "add_copy"
    /\ \/ \* the source vanished: nothing is written
          /\ Fault
          /\ Finish(p, ErrIo)
          /\ UNCHANGED <<files, loc>>
       \/ \* the copy fails after the destination was created
          /\ Fault
          /\ Finish(p, ErrIo)
          /\ files' = fs_write(loc[p].dst, PartialBytes)
          /\ UNCHANGED loc
       \/ /\ Goto(p, "add_insert")
          /\ files' = fs_write(loc[p].dst, loc[p].bytes)
          /\ UNCHANGED <<loc, faults>>
    /\ UNCHANGED <<photos, thumbs, nextId, now, calls, snap, prev>>
    /\ UNCHANGED <<libVars, bulk, envVars>>

\* lib.rs:322-336
AddPhotoInsert(p) ==
    /\ pc[p] = "add_insert"
    /\ \/ /\ Fault
          /\ Finish(p, ErrDb)
          /\ UNCHANGED photos
       \/ /\ SchemaAccepts(NewRow(loc[p].id, loc[p].name, loc[p].dst,
                                    loc[p].hash, now_ts))
          /\ photos' = InsertRow(NewRow(loc[p].id, loc[p].name, loc[p].dst,
                                        loc[p].hash, now_ts))
          /\ Goto(p, "add_thumbnail")
          /\ UNCHANGED faults
    /\ UNCHANGED <<files, thumbs, nextId, now, calls, loc, snap, prev>>
    /\ UNCHANGED <<libVars, bulk, envVars>>

\* an ingest that returns the error of generate_thumbnail with `?`
AddPhotoThumbnailPropagating(p) ==
    /\ pc[p] = "add_thumbnail"
    /\ \/ /\ ThumbnailSource(loc[p].id) # {}
          /\ thumbs' = thumbs \cup {thumb_path(loc[p].id, IngestThumbSize)}
          /\ dirs' = dirs \cup {thumbs_dir}
          /\ Finish(p, OkAdded)
          /\ UNCHANGED faults
       \/ /\ ThumbnailSource(loc[p].id) = {}
          /\ dirs' = dirs \cup {thumbs_dir}
          /\ Finish(p, ErrIo)
          /\ UNCHANGED <<thumbs, faults>>
       \/ /\ ThumbnailSource(loc[p].id) # {}
          /\ Fault
          /\ dirs' \in {dirs, dirs \cup {thumbs_dir}}
          /\ Finish(p, ErrIo)
          /\ UNCHANGED thumbs
    /\ UNCHANGED <<files, photos, nextId, now, calls, loc, snap, prev>>
    /\ UNCHANGED <<libVars, bulk, mtime, out, db>>

\* lib.rs:338-344  let _ = generate_thumbnail(...).await; Ok(...)
AddPhotoThumbnail(p) ==
    /\ pc[p] = "add_thumbnail"
    /\ \/ /\ ThumbnailSource(loc[p].id) # {}
          /\ thumbs' = thumbs \cup {thumb_path(loc[p].id, IngestThumbSize)}
          /\ dirs' = dirs \cup {thumbs_dir}
          /\ UNCHANGED faults
       \/ \* no file or no image, found after the cache directory was made: the
          \* error is dropped
          /\ ThumbnailSource(loc[p].id) = {}
          /\ dirs' = dirs \cup {thumbs_dir}
          /\ UNCHANGED <<thumbs, faults>>
       \/ \* the cache directory or file cannot be written: the error is dropped
          /\ ThumbnailSource(loc[p].id) # {}
          /\ Fault
          /\ dirs' \in {dirs, dirs \cup {thumbs_dir}}
          /\ UNCHANGED thumbs
    /\ Finish(p, OkAdded)
    /\ UNCHANGED <<files, photos, nextId, now, calls, loc, snap, prev>>
    /\ UNCHANGED <<libVars, bulk, mtime, out, db>>

(***************************************************************************)
(* promote_photo_tier, lib.rs:437-480, and promote_photo, lib.rs:482-489,  *)
(* which delegates to it.                                                  *)
(***************************************************************************)
\* a validation that rejects only the empty tier name
TierIsNonEmpty(tier) == tier # ""

\* lib.rs:444-447
TierIsValid(tier) == tier \in valid

\* lib.rs:449-456  the row promote_photo_tier works on
PromoteLookup(id) == SelectStoragePath(id)

\* lib.rs:458-463  tier_dir(&state.media_root, &tier).join(filename)
PromoteTarget(current_path, tier) == join(tier_dir(tier), current_path.name)

\* lib.rs:466, 569  std::fs::rename fails when the source is missing
RenameCanSucceed(src, dst) == exists(src)

\* lib.rs:443-463  from the entry of promote_photo_tier to its SELECT
PromoteBegin(p, entry, id, tier) ==
    LET l == [NoLoc EXCEPT !.op = entry, !.id = id, !.tier = tier] IN
    IF ~TierIsValid(tier)
    THEN /\ loc' = [loc EXCEPT ![p] = l]
         /\ Finish(p, ErrInvalidTier)
    ELSE \/ /\ loc' = [loc EXCEPT ![p] = l]
            /\ Finish(p, ErrDb)
         \/ IF PromoteLookup(id) = {}
            THEN /\ loc' = [loc EXCEPT ![p] = l]
                 /\ Finish(p, ErrNotFound)
            ELSE \E s \in PromoteLookup(id) :
                 /\ loc' = [loc EXCEPT ![p] =
                              [l EXCEPT !.src = s, !.dst = PromoteTarget(s, tier)]]
                 /\ Goto(p, "promote_rename")

\* lib.rs:438-463  a caller invokes promote_photo_tier or promote_photo
PromoteStart(p, seq, entry) ==
    /\ Invoke(p, seq)
    /\ \E id \in PhotoIds, tier \in TierInputs : PromoteBegin(p, entry, id, tier)
    /\ UNCHANGED <<files, photos, thumbs, nextId, now>>
    /\ UNCHANGED <<libVars, bulk, envVars>>

\* a promotion that goes on to the catalog update when the move failed
PromoteRenameIgnoringFailure(p) ==
    /\ pc[p] = "promote_rename"
    /\ \/ /\ ~RenameCanSucceed(loc[p].src, loc[p].dst)
          /\ Goto(p, "promote_update")
          /\ UNCHANGED <<files, loc, faults>>
       \/ /\ RenameCanSucceed(loc[p].src, loc[p].dst)
          /\ Fault
          /\ Goto(p, "promote_update")
          /\ UNCHANGED <<files, loc>>
       \/ /\ RenameCanSucceed(loc[p].src, loc[p].dst)
          /\ files' = fs_rename(loc[p].src, loc[p].dst)
          /\ UNCHANGED loc
          /\ Goto(p, "promote_update")
          /\ UNCHANGED faults
    /\ UNCHANGED <<photos, thumbs, nextId, now, calls, snap, prev>>
    /\ UNCHANGED <<libVars, bulk, envVars>>

\* lib.rs:466
PromoteRename(p) ==
    /\ pc[p] = "promote_rename"
    /\ \/ \* the source is missing
          /\ ~RenameCanSucceed(loc[p].src, loc[p].dst)
          /\ Finish(p, ErrIo)
          /\ UNCHANGED <<files, loc, faults>>
       \/ \* the rename fails for another reason (permissions, another volume)
          /\ RenameCanSucceed(loc[p].src, loc[p].dst)
          /\ Fault
          /\ Finish(p, ErrIo)
          /\ UNCHANGED <<files, loc>>
       \/ /\ RenameCanSucceed(loc[p].src, loc[p].dst)
          /\ files' = fs_rename(loc[p].src, loc[p].dst)
          /\ UNCHANGED <<loc, faults>>
          /\ Goto(p, "promote_update")
    /\ UNCHANGED <<photos, thumbs, nextId, now, calls, snap, prev>>
    /\ UNCHANGED <<libVars, bulk, envVars>>

\* lib.rs:468-479
PromoteUpdate(p) ==
    /\ pc[p] = "promote_update"
    /\ \/ /\ Fault
          /\ Finish(p, ErrDb)
          /\ UNCHANGED photos
       \/ /\ photos' = UpdatePromoted(loc[p].id, loc[p].dst, loc[p].tier, now_ts)
          /\ Finish(p, OkPromoted)
          /\ UNCHANGED faults
    /\ UNCHANGED <<files, thumbs, nextId, now, calls, loc, snap, prev>>
    /\ UNCHANGED <<libVars, bulk, envVars>>

(***************************************************************************)
(* The promotion commands of the IPC layer, ipc.rs.                        *)
(***************************************************************************)
\* ipc.rs:26-30
IpcPromotePhotoTier(p, seq) ==
    /\ Invoke(p, seq)
    /\ \E id \in PhotoIds, tier \in TierInputs :
         loc' = [loc EXCEPT ![p] =
                   [NoLoc EXCEPT !.op = "ipc_promote_photo_tier", !.id = id, !.tier = tier]]
    /\ Finish(p, OkStubPromoted)
    /\ UNCHANGED <<files, photos, thumbs, nextId, now>>
    /\ UNCHANGED <<libVars, bulk, envVars>>

\* ipc.rs:165-173 with photo.rs:78-81; Db::new(..).await.unwrap() panics on failure
IpcPromotePhoto(p, seq) ==
    /\ Invoke(p, seq)
    /\ \E id \in PhotoIds, tier \in TierInputs :
         loc' = [loc EXCEPT ![p] =
                   [NoLoc EXCEPT !.op = "ipc_promote_photo", !.id = id, !.tier = tier]]
    /\ \/ Finish(p, Panic)
       \/ Finish(p, OkStubPromoted)
    /\ UNCHANGED <<files, photos, thumbs, nextId, now>>
    /\ UNCHANGED <<libVars, bulk, envVars>>

(***************************************************************************)
(* delete_photo, lib.rs:541-581.                                           *)
(***************************************************************************)
\* lib.rs:547-554  the row delete_photo works on
DeleteLookup(id) == SelectStoragePath(id)

\* lib.rs:547-556  from the entry of delete_photo to its SELECT;
\* permanent.unwrap_or(false): an absent flag is FALSE
DeleteBegin(p, id, permanent) ==
    LET l == [NoLoc EXCEPT !.op = "delete_photo", !.id = id,
                           !.permanent = permanent] IN
    \/ /\ loc' = [loc EXCEPT ![p] = l]
       /\ Finish(p, ErrDb)
    \/ IF DeleteLookup(id) = {}
       THEN /\ loc' = [loc EXCEPT ![p] = l]
            /\ Finish(p, ErrNotFound)
       ELSE \E s \in DeleteLookup(id) :
            /\ loc' = [loc EXCEPT ![p] = [l EXCEPT !.src = s]]
            /\ Goto(p, IF permanent THEN "delete_remove_file"
                                    ELSE "delete_unique_path")

\* lib.rs:542-555  a caller invokes delete_photo
DeleteStart(p, seq) ==
    /\ Invoke(p, seq)
    /\ \E id \in PhotoIds, permanent \in BOOLEAN : DeleteBegin(p, id, permanent)
    /\ UNCHANGED <<files, photos, thumbs, nextId, now>>
    /\ UNCHANGED <<libVars, bulk, envVars>>

\* lib.rs:557  let _ = std::fs::remove_file(&storage_path);
DeleteRemoveFile(p) ==
    /\ pc[p] = "delete_remove_file"
    /\ \/ \* removes the file; a missing file is an error that is dropped
          /\ files' = fs_remove(loc[p].src)
          /\ UNCHANGED <<loc, faults>>
       \/ \* the removal of an existing file fails and the error is dropped
          /\ exists(loc[p].src)
          /\ Fault
          /\ UNCHANGED <<files, loc>>
    /\ Goto(p, "delete_row")
    /\ UNCHANGED <<photos, thumbs, nextId, now, calls, snap, prev>>
    /\ UNCHANGED <<libVars, bulk, envVars>>

\* lib.rs:558-562
DeleteRowStep(p) ==
    /\ pc[p] = "delete_row"
    /\ \/ /\ Fault
          /\ Finish(p, ErrDb)
          /\ UNCHANGED photos
       \/ /\ photos' = DeleteRow(loc[p].id)
          /\ Finish(p, OkDeleted)
          /\ UNCHANGED faults
    /\ UNCHANGED <<files, thumbs, nextId, now, calls, loc, snap, prev>>
    /\ UNCHANGED <<libVars, bulk, envVars>>

\* lib.rs:565-568
DeleteUniquePath(p) ==
    /\ pc[p] = "delete_unique_path"
    /\ loc' = [loc EXCEPT ![p].dst = unique_path(join(trash_dir, loc[p].src.name))]
    /\ Goto(p, "delete_rename")
    /\ UNCHANGED <<files, photos, thumbs, nextId, now, calls, faults, snap, prev>>
    /\ UNCHANGED <<libVars, bulk, envVars>>

\* lib.rs:569
DeleteRename(p) ==
    /\ pc[p] = "delete_rename"
    /\ \/ \* the source is missing
          /\ ~RenameCanSucceed(loc[p].src, loc[p].dst)
          /\ Finish(p, ErrIo)
          /\ UNCHANGED <<files, loc, faults>>
       \/ \* the rename fails for another reason (permissions, another volume)
          /\ RenameCanSucceed(loc[p].src, loc[p].dst)
          /\ Fault
          /\ Finish(p, ErrIo)
          /\ UNCHANGED <<files, loc>>
       \/ /\ RenameCanSucceed(loc[p].src, loc[p].dst)
          /\ files' = fs_rename(loc[p].src, loc[p].dst)
          /\ UNCHANGED <<loc, faults>>
          /\ Goto(p, "delete_update")
    /\ UNCHANGED <<photos, thumbs, nextId, now, calls, snap, prev>>
    /\ UNCHANGED <<libVars, bulk, envVars>>

\* lib.rs:570-580
DeleteUpdate(p) ==
    /\ pc[p] = "delete_update"
    /\ \/ /\ Fault
          /\ Finish(p, ErrDb)
          /\ UNCHANGED photos
       \/ /\ photos' = UpdateTrashed(loc[p].id, loc[p].dst, now_ts)
          /\ Finish(p, OkTrashed)
          /\ UNCHANGED faults
    /\ UNCHANGED <<files, thumbs, nextId, now, calls, loc, snap, prev>>
    /\ UNCHANGED <<libVars, bulk, envVars>>

(***************************************************************************)
(* Albums, tags and faces: the tables the listing queries join, and the    *)
(* commands that write them.  Each command is one SQL statement (or one    *)
(* transaction), hence one step.                                           *)
(***************************************************************************)
AlbumIds == {"al1"}
TagIds == {"t1"}
PersonIds == {"pe1"}

\* lib.rs:358-377
list_photos_by_person(person_id) ==
    {i \in DOMAIN photos :
        /\ \E f \in faces : f.photo_id = i /\ f.person_id = Some(person_id)
        /\ photos[i].deleted_at = NULL}

\* the filter combinations search_photos is called with; None is NULL
SearchFilters ==
    [personId : {NULL} \cup {Some(x) : x \in PersonIds},
     tagId : {NULL} \cup {Some(x) : x \in TagIds},
     tier : {NULL, Some("bronze"), Some("silver")},
     dateFrom : {NULL, Some(0)},
     dateTo : {NULL, Some(0)}]

\* lib.rs:388-435  the joins and WHERE clauses search_photos assembles
search_photos(filters) ==
    {i \in DOMAIN photos :
        /\ filters.personId # NULL
           => \E f \in faces : f.photo_id = i /\ f.person_id = filters.personId
        /\ filters.tier # NULL => Some(photos[i].tier) = filters.tier
        /\ filters.tagId # NULL
           => \E pt \in photo_tags : pt.photo_id = i /\ Some(pt.tag_id) = filters.tagId
        /\ filters.dateFrom # NULL => photos[i].created_at >= filters.dateFrom[1]
        /\ filters.dateTo # NULL => photos[i].created_at <= filters.dateTo[1]
        /\ photos[i].deleted_at = NULL}

\* lib.rs:934-948  SELECT ... FROM photos p JOIN album_photos ap
\*                 ON ap.photo_id = p.id WHERE ap.album_id = ?
list_album_photos(album_id) ==
    {i \in DOMAIN photos :
        \E ap \in album_photos : ap.photo_id = i /\ ap.album_id = album_id}

\* a command of one statement: it fails and changes nothing, or it succeeds;
\* a failure that changes nothing is not counted in faults
OneStatement(p, seq, op) ==
    /\ Invoke(p, seq)
    /\ loc' = [loc EXCEPT ![p] = [NoLoc EXCEPT !.op = op]]
    /\ UNCHANGED <<files, photos, thumbs, nextId, now, bulk, envVars>>

\* lib.rs:902-916  INSERT OR IGNORE INTO album_photos
AddPhotoToAlbum(p, seq) ==
    /\ OneStatement(p, seq, "add_photo_to_album")
    /\ \/ /\ Finish(p, ErrDb)
          /\ UNCHANGED album_photos
       \/ /\ \E a \in AlbumIds, id \in PhotoIds :
                album_photos' = album_photos \cup {[album_id |-> a, photo_id |-> id]}
          /\ Finish(p, OkAddedToAlbum)
    /\ UNCHANGED <<photo_tags, faces>>

\* lib.rs:918-932  DELETE FROM album_photos WHERE album_id = ? AND photo_id = ?
RemovePhotoFromAlbum(p, seq) ==
    /\ OneStatement(p, seq, "remove_photo_from_album")
    /\ \/ /\ Finish(p, ErrDb)
          /\ UNCHANGED album_photos
       \/ /\ \E a \in AlbumIds, id \in PhotoIds :
                album_photos' = album_photos \ {[album_id |-> a, photo_id |-> id]}
          /\ Finish(p, OkRemovedFromAlbum)
    /\ UNCHANGED <<photo_tags, faces>>

\* lib.rs:829, 981  INSERT OR IGNORE INTO photo_tags (photo_id, tag_id)
InsertPhotoTag(id, tag) == photo_tags \cup {[photo_id |-> id, tag_id |-> tag]}

\* lib.rs:822-836
AssignTag(p, seq) ==
    /\ OneStatement(p, seq, "assign_tag")
    /\ \/ /\ Finish(p, ErrDb)
          /\ UNCHANGED photo_tags
       \/ /\ \E id \in PhotoIds, tag \in TagIds : photo_tags' = InsertPhotoTag(id, tag)
          /\ Finish(p, OkTagAssigned)
    /\ UNCHANGED <<album_photos, faces>>

\* lib.rs:838-852
RemoveTag(p, seq) ==
    /\ OneStatement(p, seq, "remove_tag")
    /\ \/ /\ Finish(p, ErrDb)
          /\ UNCHANGED photo_tags
       \/ /\ \E id \in PhotoIds, tag \in TagIds :
                photo_tags' = photo_tags \ {[photo_id |-> id, tag_id |-> tag]}
          /\ Finish(p, OkTagRemoved)
    /\ UNCHANGED <<album_photos, faces>>

\* lib.rs:140-187  one detection, saved in a transaction: the face row is
\* there after the commit, with person_id NULL, or not at all
SaveFaceDetections(p, seq) ==
    /\ OneStatement(p, seq, "save_face_detections")
    /\ \/ /\ Finish(p, ErrDb)
          /\ UNCHANGED faces
       \/ /\ \E id \in PhotoIds :
                faces' = faces \cup {[photo_id |-> id, person_id |-> NULL]}
          /\ Finish(p, OkDetectionsSaved)
    /\ UNCHANGED <<album_photos, photo_tags>>

\* lib.rs:202-218  UPDATE faces SET person_id = ? WHERE id = ?
AssignFacePerson(p, seq) ==
    /\ OneStatement(p, seq, "assign_face_person")
    /\ \/ /\ Finish(p, ErrDb)
          /\ UNCHANGED faces
       \/ /\ \/ \* no face has the id
                faces' = faces
             \/ \E f \in faces, person \in {NULL} \cup {Some(x) : x \in PersonIds} :
                   faces' = (faces \ {f}) \cup {[f EXCEPT !.person_id = person]}
          /\ Finish(p, OkAssignmentUpdated)
    /\ UNCHANGED <<album_photos, photo_tags>>

(***************************************************************************)
(* Bulk commands: promote_photos_bulk lib.rs:491-506, delete_photos_bulk   *)
(* lib.rs:583-598, assign_tag_bulk lib.rs:972-990.                         *)
(***************************************************************************)
\* the id lists a bulk command is called with
BulkIds == UNION {[1..n -> PhotoIds] : n \in 0..MaxBulk}

\* lib.rs:497-499, 589-591, 979-980  let mut ok = 0; let mut fail = 0; for id in ..
BulkStart(p, seq, b) ==
    /\ Invoke(p, seq)
    /\ bulk' = [bulk EXCEPT ![p] = b]
    /\ Goto(p, "bulk_next")
    /\ UNCHANGED <<files, photos, thumbs, nextId, now, loc, libVars, envVars>>

\* lib.rs:492-499
PromotePhotosBulkStart(p, seq) ==
    \E ids \in BulkIds, tier \in TierInputs :
        BulkStart(p, seq, [NoBulk EXCEPT !.op = "promote_photos_bulk", !.ids = ids,
                                         !.i = 1, !.tier = tier])

\* lib.rs:584-591
DeletePhotosBulkStart(p, seq) ==
    \E ids \in BulkIds, permanent \in BOOLEAN :
        BulkStart(p, seq, [NoBulk EXCEPT !.op = "delete_photos_bulk", !.ids = ids,
                                         !.i = 1, !.permanent = permanent])

\* lib.rs:973-980
AssignTagBulkStart(p, seq) ==
    \E ids \in BulkIds, tag \in TagIds :
        BulkStart(p, seq, [NoBulk EXCEPT !.op = "assign_tag_bulk", !.ids = ids,
                                         !.i = 1, !.tag = tag])

\* the loop has an item left
BulkHasNext(p, op) ==
    /\ pc[p] = "bulk_next"
    /\ bulk[p].op = op
    /\ bulk[p].i <= Len(bulk[p].ids)

\* lib.rs:500  promote_photo_tier(app.clone(), id, tier.clone()).await
PromotePhotosBulkItem(p) ==
    /\ BulkHasNext(p, "promote_photos_bulk")
    /\ PromoteBegin(p, "promote_photo_tier", bulk[p].ids[bulk[p].i], bulk[p].tier)
    /\ UNCHANGED <<files, photos, thumbs, nextId, now, calls, faults, snap, prev,
                   libVars, bulk, envVars>>

\* lib.rs:592  delete_photo(app.clone(), id, permanent).await
DeletePhotosBulkItem(p) ==
    /\ BulkHasNext(p, "delete_photos_bulk")
    /\ DeleteBegin(p, bulk[p].ids[bulk[p].i], bulk[p].permanent)
    /\ UNCHANGED <<files, photos, thumbs, nextId, now, calls, faults, snap, prev,
                   libVars, bulk, envVars>>

\* the loop state after an item that returned r for photo id
Counted(b, id, r) ==
    [b EXCEPT !.i = @ + 1,
              !.ok = IF IsErr(r) THEN @ ELSE @ + 1,
              !.fail = IF IsErr(r) THEN @ + 1 ELSE @,
              !.log = Append(@, [id |-> id, result |-> r])]

\* a loop that leaves at the first item that failed, without counting it
AbortOnErr(b, id, r) ==
    IF IsErr(r) THEN [b EXCEPT !.i = Len(b.ids) + 1] ELSE Counted(b, id, r)

\* lib.rs:500-503, 592-595  match .. { Ok(_) => ok += 1, Err(_) => fail += 1 }
BulkMatch(b, id, r) == Counted(b, id, r)

\* the single-photo command of an item has returned to the loop
BulkCollect(p) ==
    /\ pc[p] = "done"
    /\ bulk[p].op \in {"promote_photos_bulk", "delete_photos_bulk"}
    /\ bulk' = [bulk EXCEPT ![p] = BulkMatch(bulk[p], loc[p].id, result[p])]
    /\ pc' = [pc EXCEPT ![p] = "bulk_next"]
    /\ result' = [result EXCEPT ![p] = ""]
    /\ loc' = [loc EXCEPT ![p] = NoLoc]
    /\ UNCHANGED <<files, photos, thumbs, nextId, now, calls, faults, snap, prev, libVars,
                   envVars>>

\* lib.rs:981-987  the INSERT of an item, followed by `?`, then ok += 1
AssignTagBulkItem(p) ==
    /\ BulkHasNext(p, "assign_tag_bulk")
    /\ \/ \* the statement fails: `?` returns the error from the command
          /\ Fault
          /\ pc' = [pc EXCEPT ![p] = "bulk_done"]
          /\ result' = [result EXCEPT ![p] = ErrDb]
          /\ UNCHANGED <<photo_tags, bulk>>
       \/ /\ photo_tags' = InsertPhotoTag(bulk[p].ids[bulk[p].i], bulk[p].tag)
          /\ bulk' = [bulk EXCEPT ![p] =
                         Counted(bulk[p], bulk[p].ids[bulk[p].i], OkTagAssigned)]
          /\ UNCHANGED <<pc, result, faults>>
    /\ UNCHANGED <<files, photos, thumbs, nextId, now, calls, loc, snap, prev,
                   album_photos, faces, envVars>>

\* lib.rs:505, 597, 989  Ok(format!(..)) after the last item
BulkFinish(p) ==
    /\ pc[p] = "bulk_next"
    /\ bulk[p].i > Len(bulk[p].ids)
    /\ pc' = [pc EXCEPT ![p] = "bulk_done"]
    /\ result' = [result EXCEPT ![p] = OkBulk]
    /\ UNCHANGED <<files, photos, thumbs, nextId, now, calls, faults, loc, snap, prev,
                   libVars, bulk, envVars>>

\* the caller has consumed the return value of the bulk command
BulkReturn(p) ==
    /\ pc[p] = "bulk_done"
    /\ pc' = [pc EXCEPT ![p] = "idle"]
    /\ bulk' = [bulk EXCEPT ![p] = NoBulk]
    /\ result' = [result EXCEPT ![p] = ""]
    /\ snap' = [snap EXCEPT ![p] = NoSnap]
    /\ prev' = [prev EXCEPT ![p] = NoPrev]
    /\ UNCHANGED <<files, photos, thumbs, nextId, now, calls, faults, loc, libVars,
                   envVars>>

(***************************************************************************)
(* generate_thumbnail as a command of its own, lib.rs:600-638.              *)
(***************************************************************************)
\* the max_size arguments a caller passes: None and Some(256)
MaxSizes == {NULL, Some(256)}

\* lib.rs:624  max_size.unwrap_or(512)
unwrap_or(opt, default) == IF opt = NULL THEN default ELSE opt[1]

\* lib.rs:601-612  a caller invokes generate_thumbnail: the SELECT of the row
GenerateThumbnailStart(p, seq) ==
    /\ Invoke(p, seq)
    /\ \E id \in PhotoIds, max_size \in MaxSizes :
          /\ loc' = [loc EXCEPT ![p] = [NoLoc EXCEPT !.op = "generate_thumbnail",
                        !.id = id, !.max_dim = unwrap_or(max_size, 512),
                        !.src = IF SelectStoragePath(id) = {} THEN NoPath
                                ELSE CHOOSE s \in SelectStoragePath(id) : TRUE,
                        !.dst = thumb_path(id, unwrap_or(max_size, 512))]]
          /\ \/ \* the SELECT fails
                Finish(p, ErrDb)
             \/ IF SelectStoragePath(id) = {}
                THEN Finish(p, ErrNotFound)
                ELSE Goto(p, "thumb_dir")
    /\ UNCHANGED <<files, photos, thumbs, nextId, now>>
    /\ UNCHANGED <<libVars, bulk, envVars>>

\* lib.rs:615-620  create_dir_all(&thumbs_dir): an error other than
\* AlreadyExists is returned
GenerateThumbnailDir(p) ==
    /\ pc[p] = "thumb_dir"
    /\ \/ \* the directory is there or is made
          /\ dirs' = dirs \cup {thumbs_dir}
          /\ Goto(p, "thumb_work")
          /\ UNCHANGED faults
       \/ \* Err(AlreadyExists), something that is no directory has the name:
          \* the command goes on
          /\ thumbs_dir \notin dirs
          /\ Goto(p, "thumb_work")
          /\ UNCHANGED <<dirs, faults>>
       \/ \* any other error
          /\ thumbs_dir \notin dirs
          /\ Fault
          /\ Finish(p, ErrIo)
          /\ UNCHANGED dirs
    /\ UNCHANGED <<files, photos, thumbs, nextId, now, calls, loc, snap, prev>>
    /\ UNCHANGED <<libVars, bulk, mtime, out, db>>

\* lib.rs:627-635  the blocking task: image::open, resize_keep_aspect,
\* File::create(&thumb_path), write_to
GenerateThumbnailWork(p) ==
    /\ pc[p] = "thumb_work"
    /\ \/ \* the file is gone or is no image
          /\ ~(exists(loc[p].src) /\ files[loc[p].src] = ImageBytes)
          /\ Finish(p, ErrIo)
          /\ UNCHANGED <<thumbs, faults>>
       \/ \* the cache directory is missing
          /\ exists(loc[p].src) /\ files[loc[p].src] = ImageBytes
          /\ thumbs_dir \notin dirs
          /\ Finish(p, ErrIo)
          /\ UNCHANGED <<thumbs, faults>>
       \/ \* File::create fails
          /\ exists(loc[p].src) /\ files[loc[p].src] = ImageBytes
          /\ thumbs_dir \in dirs
          /\ Fault
          /\ Finish(p, ErrIo)
          /\ UNCHANGED thumbs
       \/ \* the file is created and the encoder fails to write it
          /\ exists(loc[p].src) /\ files[loc[p].src] = ImageBytes
          /\ thumbs_dir \in dirs
          /\ Fault
          /\ thumbs' = thumbs \cup {loc[p].dst}
          /\ Finish(p, ErrIo)
       \/ /\ exists(loc[p].src) /\ files[loc[p].src] = ImageBytes
          /\ thumbs_dir \in dirs
          /\ thumbs' = thumbs \cup {loc[p].dst}
          /\ Finish(p, OkThumbnail)
          /\ UNCHANGED faults
    /\ UNCHANGED <<files, photos, nextId, now, calls, loc, snap, prev>>
    /\ UNCHANGED <<libVars, bulk, envVars>>

(***************************************************************************)
(* resize_keep_aspect, lib.rs:640-657, in the f32 arithmetic of the code.  *)
(* An f32 is m / 2^s with a significand m of at most 24 bits; dimensions   *)
(* are below 2^12, and no intermediate value leaves 31 bits.               *)
(***************************************************************************)
\* the binary digits of a / b, one at a time, until the quotient q has 24 bits:
\* <<q, r, s>> with a / b = (q + r / b) / 2^s
RECURSIVE DivBits(_, _, _, _)
DivBits(q, r, b, s) ==
    IF q >= 2^23 THEN <<q, r, s>>
    ELSE DivBits(2 * q + (2 * r) \div b, (2 * r) % b, b, s + 1)

\* lib.rs:648, 652  max_dim as f32 / w as f32: the f32 nearest to a / b, ties
\* to the even significand
f32_div(a, b) ==
    LET t == DivBits(a \div b, a % b, b, 0)
        up == 2 * t[2] > b \/ (2 * t[2] = b /\ t[1] % 2 = 1)
    IN [m |-> t[1] + (IF up THEN 1 ELSE 0), s |-> t[3]]

\* the number of binary digits of n
RECURSIVE BitLen(_)
BitLen(n) == IF n = 0 THEN 0 ELSE 1 + BitLen(n \div 2)

\* lib.rs:648, 652  h as f32 * ratio: the f32 nearest to the product h * m /
\* 2^s, ties to even.  The product is hi * 2^12 + lo; d of its digits are
\* dropped to leave 24
f32_mul(h, ratio) ==
    LET m1 == ratio.m \div 2^12
        m0 == ratio.m % 2^12
        hi == h * m1 + (h * m0) \div 2^12
        lo == (h * m0) % 2^12
        d == IF BitLen(hi) > 12 THEN BitLen(hi) - 12 ELSE 0
        top == IF d <= 12 THEN hi * 2^(12 - d) + lo \div 2^d
               ELSE hi \div 2^(d - 12)
        rem == IF d <= 12 THEN lo % 2^d
               ELSE (hi % 2^(d - 12)) * 2^12 + lo
        up == d > 0 /\ (2 * rem > 2^d \/ (2 * rem = 2^d /\ top % 2 = 1))
    IN [m |-> top + (IF up THEN 1 ELSE 0), s |-> ratio.s - d]

\* lib.rs:648, 652  .round() as u32: the nearest integer, a tie away from zero
f32_round(x) ==
    IF x.s = 0 THEN x.m
    ELSE IF x.s > 30 THEN 0
    ELSE (x.m + 2^(x.s - 1)) \div 2^x.s

\* lib.rs:640-657  the dimensions <<new_w, new_h>> of the resized image
resize_keep_aspect(w, h, max_dim) ==
    IF w <= max_dim /\ h <= max_dim THEN <<w, h>>
    ELSE IF w >= h
         THEN <<max_dim, f32_round(f32_mul(h, f32_div(max_dim, w)))>>
         ELSE <<f32_round(f32_mul(w, f32_div(max_dim, h))), max_dim>>

\* widths and heights of the source images and the max_dim values tried
ImageSides == {1, 3, 69, 90, 100, 144, 256, 512, 640, 920, 1024, 3072, 4000}
MaxDims == {100, 256, 512}

\* an image of every size is about to be resized
ResizeInit ==
    /\ \E w \in ImageSides, h \in ImageSides, max_dim \in MaxDims :
          loc = [p \in Procs |->
                    IF p \in SeqProcs
                    THEN [NoLoc EXCEPT !.op = "resize_keep_aspect",
                                       !.w = w, !.h = h, !.max_dim = max_dim]
                    ELSE NoLoc]
    /\ pc = [p \in Procs |-> IF p \in SeqProcs THEN "resize_call" ELSE "idle"]
    /\ files = <<>>
    /\ photos = <<>>
    /\ thumbs = {}
    /\ nextId = 1
    /\ now = 0
    /\ calls = 0
    /\ faults = 0
    /\ result = [p \in Procs |-> ""]
    /\ snap = [p \in Procs |-> NoSnap]
    /\ prev = [p \in Procs |-> NoPrev]
    /\ album_photos = {}
    /\ photo_tags = {}
    /\ faces = {}
    /\ bulk = [p \in Procs |-> NoBulk]
    /\ dirs = SetupDirs
    /\ mtime = <<>>
    /\ out = <<>>
    /\ db = NoDb

\* lib.rs:629  let resized = resize_keep_aspect(&img, max_dim)
ResizeCall(p) ==
    /\ pc[p] = "resize_call"
    /\ out' = resize_keep_aspect(loc[p].w, loc[p].h, loc[p].max_dim)
    /\ Goto(p, "resize_done")
    /\ UNCHANGED <<files, photos, thumbs, nextId, now, calls, faults, loc, snap, prev>>
    /\ UNCHANGED <<libVars, bulk, dirs, mtime, db>>

ResizeNext == \E p \in SeqProcs : ResizeCall(p)
ResizeSpec == ResizeInit /\ [][ResizeNext]_vars

(***************************************************************************)
(* detect_bursts and detect_duplicates, photo.rs:102-176.                  *)
(***************************************************************************)
\* photo.rs:106, 158  the table the two queries read.  Its rows are taken to
\* be those of the catalog, soft-deleted ones included, file_path being the
\* storage path
file_versions ==
    [i \in DOMAIN photos |->
        [id |-> i, file_path |-> photos[i].storage_path, tier |-> photos[i].tier,
         created_at |-> photos[i].created_at]]

\* the orders in which a query may return the rows of ids: every order that
\* agrees with key, rows of equal key in any order
RowOrders(ids, key) ==
    {o \in [1..Cardinality(ids) -> ids] :
        /\ \A i \in ids : \E k \in DOMAIN o : o[k] = i
        /\ \A k, l \in DOMAIN o : k < l => key[o[k]] <= key[o[l]]}

\* photo.rs:127-129  fs::metadata(path).and_then(|m| m.modified())
\*                   .unwrap_or(UNIX_EPOCH), in seconds
modified(path) == IF path \in DOMAIN mtime THEN mtime[path] ELSE 0

\* the file stems of the photos, cut at their underscores
StemParts ==
    [IMG_001 |-> <<"IMG", "001">>, IMG_002 |-> <<"IMG", "002">>,
     IMG_999 |-> <<"IMG", "999">>, DSC_001 |-> <<"DSC", "001">>,
     DSC_002 |-> <<"DSC", "002">>, DSC_999 |-> <<"DSC", "999">>]

\* str::split('_') on a file stem
split_underscore(stem) == IF stem \in DOMAIN StemParts THEN StemParts[stem] ELSE <<stem>>

\* photo.rs:130  photo.file_path.split('_').next(): the path string up to its
\* first underscore, directories included; tier and trash directories have
\* no underscore, and a path without one is its own prefix
path_prefix(path) ==
    IF Len(split_underscore(path.name.stem)) > 1
    THEN <<path.dir, split_underscore(path.name.stem)[1], <<>>, "">>
    ELSE <<path.dir, path.name.stem, path.name.sfx, path.name.ext>>

\* photo.rs:132  ts.duration_since(lt).unwrap_or_default().as_secs(): zero
\* when ts is earlier than lt
duration_since(ts, lt) == IF ts >= lt THEN ts - lt ELSE 0

\* photo.rs:120-150  the grouping loop over items k..Len(items), each with an
\* id, a time ts and a prefix: bursts are the groups closed so far, group the
\* open one, last the item before
RECURSIVE BurstLoop(_, _, _, _, _)
BurstLoop(items, k, bursts, group, last) ==
    IF k > Len(items)
    THEN IF Len(group) > 1 THEN Append(bursts, group) ELSE bursts
    ELSE LET photo == items[k] IN
         IF k = 1
         THEN BurstLoop(items, k + 1, bursts, Append(group, photo.id), photo)
         ELSE IF duration_since(photo.ts, last.ts) <= 10 /\ last.prefix = photo.prefix
              THEN BurstLoop(items, k + 1, bursts, Append(group, photo.id), photo)
              ELSE BurstLoop(items, k + 1,
                             IF Len(group) > 1 THEN Append(bursts, group) ELSE bursts,
                             <<photo.id>>, photo)

\* photo.rs:105-150  detect_bursts on the rows in the order the query
\* returned them
detect_bursts(order) ==
    BurstLoop([k \in DOMAIN order |->
                  [id |-> order[k],
                   ts |-> modified(file_versions[order[k]].file_path),
                   prefix |-> path_prefix(file_versions[order[k]].file_path)]],
              1, <<>>, <<>>, [id |-> 0, ts |-> 0, prefix |-> <<>>])

\* photo.rs:103-151  a caller invokes detect_bursts: SELECT .. ORDER BY
\* created_at ASC, then the loop
DetectBursts(p, seq) ==
    /\ Invoke(p, seq)
    /\ loc' = [loc EXCEPT ![p] = [NoLoc EXCEPT !.op = "detect_bursts"]]
    /\ \/ \* the SELECT fails
          /\ Finish(p, ErrDb)
          /\ UNCHANGED out
       \/ \E order \in RowOrders(DOMAIN file_versions,
                                  [i \in DOMAIN file_versions |-> file_versions[i].created_at]) :
             /\ out' = detect_bursts(order)
             /\ Finish(p, OkGroups)
    /\ UNCHANGED <<files, photos, thumbs, nextId, now>>
    /\ UNCHANGED <<libVars, bulk, dirs, mtime, db>>

\* photo.rs:168-171  File::open(&file_path)? and io::copy(..)? succeed on
\* every row
AllReadable == \A i \in DOMAIN file_versions : exists(file_versions[i].file_path)

\* photo.rs:168-171  the digest of the bytes now in the file of row i
current_hash(i) == sha256_file(files[file_versions[i].file_path])

\* photo.rs:163-175  the values of hash_map with more than one entry, each
\* in the order of the rows
duplicate_groups(order) ==
    { SelectSeq(order, LAMBDA i : current_hash(i) = hash) :
        hash \in {current_hash(i) : i \in DOMAIN file_versions} }

\* the orders in which into_values() may hand out the groups
GroupOrders(groups) ==
    {o \in [1..Cardinality(groups) -> groups] :
        \A g \in groups : \E k \in DOMAIN o : o[k] = g}

\* photo.rs:154-176  a caller invokes detect_duplicates: SELECT without ORDER
\* BY, then every file is read
DetectDuplicates(p, seq) ==
    /\ Invoke(p, seq)
    /\ loc' = [loc EXCEPT ![p] = [NoLoc EXCEPT !.op = "detect_duplicates"]]
    /\ \/ \* the SELECT fails
          /\ Finish(p, ErrDb)
          /\ UNCHANGED out
       \/ \* a file cannot be opened: `?` ends the command
          /\ ~AllReadable
          /\ Finish(p, ErrIo)
          /\ UNCHANGED out
       \/ /\ AllReadable
          /\ \E order \in RowOrders(DOMAIN file_versions,
                                     [i \in DOMAIN file_versions |-> 0]) :
                out' \in GroupOrders({g \in duplicate_groups(order) : Len(g) > 1})
          /\ Finish(p, OkGroups)
    /\ UNCHANGED <<files, photos, thumbs, nextId, now>>
    /\ UNCHANGED <<libVars, bulk, dirs, mtime, db>>

\* the photos of the catalogs the two commands are tried on
DetectIds == 1..MaxDetect
\* stems of photo i: IMG or DSC, numbered 001, 002 and from then on 999
DetectStems(i) ==
    IF i = 1 THEN {"IMG_001", "DSC_001"}
    ELSE IF i = 2 THEN {"IMG_002", "DSC_002"}
    ELSE {"IMG_999", "DSC_999"}
\* modification times in seconds
DetectTimes == {0, 5, 12, 5000}

\* the row and file of photo i: ingested at time created, promoted to tier or
\* soft-deleted, its file holding bytes
DetectRow(i, stem, tier, deleted, created) ==
    [NewRow(i, FileName([stem |-> stem, ext |-> "jpg"]),
            join(IF deleted THEN trash_dir ELSE tier_dir(tier),
                 FileName([stem |-> stem, ext |-> "jpg"])),
            sha256_file(ImageBytes), created)
        EXCEPT !.tier = tier, !.deleted_at = IF deleted THEN Some(created) ELSE NULL]

\* catalogs for detect_bursts: active photos in two tiers, ingested in any
\* order, with any of the modification times
BurstCatalogs ==
    {[i \in DetectIds |-> DetectRow(i, stem[i], tier[i], FALSE, created[i])] :
        stem \in {f \in [DetectIds -> UNION {DetectStems(i) : i \in DetectIds}] :
                      \A i \in DetectIds : f[i] \in DetectStems(i)},
        tier \in [DetectIds -> {"bronze", "silver"}],
        created \in {c \in [DetectIds -> DetectIds] :
                         \A i, j \in DetectIds : c[i] = c[j] => i = j}}

\* catalogs for detect_duplicates: photos of the intake tier, some of them
\* soft-deleted
DuplicateCatalogs ==
    {[i \in DetectIds |-> DetectRow(i, CHOOSE st \in DetectStems(i) : TRUE, "bronze",
                                     i \in deleted, i)] :
        deleted \in SUBSET DetectIds}

\* a catalog with its files: for detect_bursts every file is there with a
\* modification time, for detect_duplicates files hold either content and
\* some are missing
DetectInit ==
    /\ \/ /\ photos \in BurstCatalogs
          /\ files = [q \in {photos[i].storage_path : i \in DetectIds} |-> ImageBytes]
          /\ mtime \in [DOMAIN files -> DetectTimes]
       \/ /\ photos \in DuplicateCatalogs
          /\ \E present \in SUBSET DetectIds :
                files \in [{photos[i].storage_path : i \in present}
                              -> {ImageBytes, OtherBytes}]
          /\ mtime = [q \in DOMAIN files |-> 0]
    /\ thumbs = {}
    /\ nextId = MaxDetect + 1
    /\ now = MaxDetect
    /\ calls = 0
    /\ faults = 0
    /\ pc = [p \in Procs |-> "idle"]
    /\ loc = [p \in Procs |-> NoLoc]
    /\ result = [p \in Procs |-> ""]
    /\ snap = [p \in Procs |-> NoSnap]
    /\ prev = [p \in Procs |-> NoPrev]
    /\ album_photos = {}
    /\ photo_tags = {}
    /\ faces = {}
    /\ bulk = [p \in Procs |-> NoBulk]
    /\ dirs = SetupDirs
    /\ out = <<>>
    /\ db = NoDb

DetectNext ==
    \/ \E p \in SeqProcs : DetectBursts(p, TRUE)
    \/ \E p \in SeqProcs : DetectDuplicates(p, TRUE)
DetectSpec == DetectInit /\ [][DetectNext]_vars

(***************************************************************************)
(* The setup of run, lib.rs:27-56: the directories of the store.           *)
(***************************************************************************)
\* lib.rs:42  for tier in ["bronze", "silver", "gold", "archive"]
SetupTiers == <<"bronze", "silver", "gold", "archive">>

\* lib.rs:42-50  create_dir_all of the next tier directory: an error other
\* than AlreadyExists ends the setup with that error
SetupTierDir(p) ==
    /\ pc[p] = "setup_tiers"
    /\ loc[p].i <= Len(SetupTiers)
    /\ LET d == tier_dir(SetupTiers[loc[p].i]) IN
          \/ \* the directory is there or is made
             /\ dirs' = dirs \cup {d}
             /\ loc' = [loc EXCEPT ![p].i = @ + 1]
             /\ UNCHANGED <<pc, result, faults>>
          \/ \* Err(AlreadyExists), something that is no directory has the name
             /\ d \notin dirs
             /\ loc' = [loc EXCEPT ![p].i = @ + 1]
             /\ UNCHANGED <<pc, result, faults, dirs>>
          \/ \* any other error
             /\ d \notin dirs
             /\ Fault
             /\ Finish(p, ErrIo)
             /\ UNCHANGED <<loc, dirs>>
    /\ UNCHANGED <<files, photos, thumbs, nextId, now, calls, snap, prev>>
    /\ UNCHANGED <<libVars, bulk, mtime, out, db>>

\* lib.rs:52-56  let _ = std::fs::create_dir_all(&trash); app.manage(..); Ok(())
SetupTrashDir(p) ==
    /\ pc[p] = "setup_tiers"
    /\ loc[p].i > Len(SetupTiers)
    /\ \/ \* the directory is there or is made
          /\ dirs' = dirs \cup {trash_dir}
          /\ UNCHANGED faults
       \/ \* Err(AlreadyExists)
          /\ trash_dir \notin dirs
          /\ UNCHANGED <<dirs, faults>>
       \/ \* any other error
          /\ trash_dir \notin dirs
          /\ Fault
          /\ UNCHANGED dirs
    /\ Finish(p, OkSetup)
    /\ UNCHANGED <<files, photos, thumbs, nextId, now, calls, loc, snap, prev>>
    /\ UNCHANGED <<libVars, bulk, mtime, out, db>>

\* the directories found by a setup: none on a first start, those of an
\* earlier run after it, or the media tree alone
FoundDirs == {{}, {tier_dir(tier) : tier \in valid}, SetupDirs, SetupDirs \cup {thumbs_dir}}

\* the application starts: the setup has its directories to make
SetupInit ==
    /\ files = <<>>
    /\ photos = <<>>
    /\ thumbs = {}
    /\ nextId = 1
    /\ now = 0
    /\ calls = 0
    /\ faults = 0
    /\ pc = [p \in Procs |-> IF p \in SeqProcs THEN "setup_tiers" ELSE "idle"]
    /\ loc = [p \in Procs |->
                 IF p \in SeqProcs THEN [NoLoc EXCEPT !.op = "run", !.i = 1] ELSE NoLoc]
    /\ result = [p \in Procs |-> ""]
    /\ snap = [p \in Procs |-> NoSnap]
    /\ prev = [p \in Procs |-> NoPrev]
    /\ album_photos = {}
    /\ photo_tags = {}
    /\ faces = {}
    /\ bulk = [p \in Procs |-> NoBulk]
    /\ dirs \in FoundDirs
    /\ mtime = <<>>
    /\ out = <<>>
    /\ db = NoDb

\* lib.rs:57-98  the setup returned Ok: the application takes commands
SetupReturn(p) ==
    /\ pc[p] = "done"
    /\ loc[p].op = "run"
    /\ result[p] = OkSetup
    /\ pc' = [pc EXCEPT ![p] = "idle"]
    /\ loc' = [loc EXCEPT ![p] = NoLoc]
    /\ result' = [result EXCEPT ![p] = ""]
    /\ UNCHANGED <<files, photos, thumbs, nextId, now, calls, faults, snap, prev>>
    /\ UNCHANGED <<libVars, bulk, envVars>>

(***************************************************************************)
(* Specifications.                                                         *)
(***************************************************************************)
NextOver(P, seq) ==
    \/ \E p \in P : Return(p)
    \/ \E p \in P : AddPhotoStart(p, seq)
    \/ \E p \in P : AddPhotoUniquePath(p)
    \/ \E p \in P : AddPhotoCopy(p)
    \/ \E p \in P : AddPhotoInsert(p)
    \/ \E p \in P : AddPhotoThumbnail(p)
    \/ \E p \in P : PromoteStart(p, seq, "promote_photo_tier")
    \/ \E p \in P : PromoteStart(p, seq, "promote_photo")
    \/ \E p \in P : PromoteRename(p)
    \/ \E p \in P : PromoteUpdate(p)
    \/ \E p \in P : IpcPromotePhotoTier(p, seq)
    \/ \E p \in P : IpcPromotePhoto(p, seq)
    \/ \E p \in P : DeleteStart(p, seq)
    \/ \E p \in P : DeleteRemoveFile(p)
    \/ \E p \in P : DeleteRowStep(p)
    \/ \E p \in P : DeleteUniquePath(p)
    \/ \E p \in P : DeleteRename(p)
    \/ \E p \in P : DeleteUpdate(p)

\* commands of independent callers interleave
Next == NextOver(Procs, FALSE)
Spec == Init /\ [][Next]_vars

\* one caller, one command at a time
SeqNext == NextOver(SeqProcs, TRUE)
SeqSpec == Init /\ [][SeqNext]_vars

\* one caller that also uses the album, tag and face commands
LibNext ==
    \/ NextOver(SeqProcs, TRUE)
    \/ \E p \in SeqProcs : AddPhotoToAlbum(p, TRUE)
    \/ \E p \in SeqProcs : RemovePhotoFromAlbum(p, TRUE)
    \/ \E p \in SeqProcs : AssignTag(p, TRUE)
    \/ \E p \in SeqProcs : RemoveTag(p, TRUE)
    \/ \E p \in SeqProcs : SaveFaceDetections(p, TRUE)
    \/ \E p \in SeqProcs : AssignFacePerson(p, TRUE)
LibSpec == Init /\ [][LibNext]_vars

\* one caller that ingests photos and runs bulk commands on them
BulkNext ==
    \/ \E p \in SeqProcs : Return(p)
    \/ \E p \in SeqProcs : AddPhotoStart(p, TRUE)
    \/ \E p \in SeqProcs : AddPhotoUniquePath(p)
    \/ \E p \in SeqProcs : AddPhotoCopy(p)
    \/ \E p \in SeqProcs : AddPhotoInsert(p)
    \/ \E p \in SeqProcs : AddPhotoThumbnail(p)
    \/ \E p \in SeqProcs : PromotePhotosBulkStart(p, TRUE)
    \/ \E p \in SeqProcs : PromotePhotosBulkItem(p)
    \/ \E p \in SeqProcs : PromoteRename(p)
    \/ \E p \in SeqProcs : PromoteUpdate(p)
    \/ \E p \in SeqProcs : DeletePhotosBulkStart(p, TRUE)
    \/ \E p \in SeqProcs : DeletePhotosBulkItem(p)
    \/ \E p \in SeqProcs : DeleteRemoveFile(p)
    \/ \E p \in SeqProcs : DeleteRowStep(p)
    \/ \E p \in SeqProcs : DeleteUniquePath(p)
    \/ \E p \in SeqProcs : DeleteRename(p)
    \/ \E p \in SeqProcs : DeleteUpdate(p)
    \/ \E p \in SeqProcs : AssignTagBulkStart(p, TRUE)
    \/ \E p \in SeqProcs : AssignTagBulkItem(p)
    \/ \E p \in SeqProcs : BulkCollect(p)
    \/ \E p \in SeqProcs : BulkFinish(p)
    \/ \E p \in SeqProcs : BulkReturn(p)
BulkSpec == Init /\ [][BulkNext]_vars

(***************************************************************************)
(* unique_path on its own: lib.rs:271-291 applied to a directory listing.  *)
(***************************************************************************)
\* targets: a name with an extension, and a name without one that carries a
\* number already
UniqueTargets ==
    { join(tier_dir("bronze"), [stem |-> "a", sfx |-> <<>>, ext |-> "jpg"]),
      join(trash_dir, [stem |-> "a", sfx |-> <<1>>, ext |-> ""]) }

\* the sets of candidate numbers taken in the directory: every subset of the
\* first few, all of 1..ProbeLimit but a few, all of them, and listings that
\* go one past the last number unique_path probes
UsedSets ==
    (SUBSET (1..MaxUsed))
    \cup {(1..ProbeLimit) \ H : H \in SUBSET {1, ProbeLimit \div 2, ProbeLimit}}
    \cup {1..(ProbeLimit + 1), (1..(ProbeLimit + 1)) \ {ProbeLimit}}

\* the directory in which the candidates of target numbered in used are taken
\* and target itself is taken iff taken
Listing(target, taken, used) ==
    [q \in {candidate(target, i) : i \in used} \cup (IF taken THEN {target} ELSE {})
        |-> ImageBytes]

UniqueInit ==
    /\ \E target \in UniqueTargets, taken \in BOOLEAN, used \in UsedSets :
          /\ files = Listing(target, taken, used)
          /\ loc = [p \in Procs |->
                       IF p \in SeqProcs
                       THEN [NoLoc EXCEPT !.op = "unique_path", !.src = target]
                       ELSE NoLoc]
    /\ pc = [p \in Procs |-> IF p \in SeqProcs THEN "unique_call" ELSE "idle"]
    /\ photos = <<>>
    /\ thumbs = {}
    /\ nextId = 1
    /\ now = 0
    /\ calls = 0
    /\ faults = 0
    /\ result = [p \in Procs |-> ""]
    /\ snap = [p \in Procs |-> NoSnap]
    /\ prev = [p \in Procs |-> NoPrev]
    /\ album_photos = {}
    /\ photo_tags = {}
    /\ faces = {}
    /\ bulk = [p \in Procs |-> NoBulk]
    /\ dirs = SetupDirs
    /\ mtime = <<>>
    /\ out = <<>>
    /\ db = NoDb

\* lib.rs:271-291  the call returns loc[p].dst
UniquePathCall(p) ==
    /\ pc[p] = "unique_call"
    /\ loc' = [loc EXCEPT ![p].dst = unique_path(loc[p].src)]
    /\ Goto(p, "unique_done")
    /\ UNCHANGED <<files, photos, thumbs, nextId, now, calls, faults, snap, prev,
                   libVars, bulk, envVars>>

UniqueNext == \E p \in SeqProcs : UniquePathCall(p)
UniqueSpec == UniqueInit /\ [][UniqueNext]_vars

(***************************************************************************)
(* Ingest alone: add_photo called time after time on files of one name.    *)
(***************************************************************************)
\* lib.rs:294-315  a caller invokes add_photo on one of the files named a.jpg
IngestStart(p, seq) ==
    /\ Invoke(p, seq)
    /\ nextId <= MaxIngest
    /\ nextId' = nextId + 1
    /\ \E f \in SameNameSources : AddPhotoBegin(p, nextId, f)
    /\ UNCHANGED <<files, photos, thumbs, now>>
    /\ UNCHANGED <<libVars, bulk, envVars>>

IngestNext ==
    \/ \E p \in SeqProcs : Return(p)
    \/ \E p \in SeqProcs : IngestStart(p, TRUE)
    \/ \E p \in SeqProcs : AddPhotoUniquePath(p)
    \/ \E p \in SeqProcs : AddPhotoCopy(p)
    \/ \E p \in SeqProcs : AddPhotoInsert(p)
    \/ \E p \in SeqProcs : AddPhotoThumbnail(p)
IngestSpec == Init /\ [][IngestNext]_vars

(***************************************************************************)
(* The application from its setup on: ingest, promotion and thumbnails.    *)
(***************************************************************************)
\* a command of the running application has returned
CommandReturn(p) ==
    /\ loc[p].op # "run"
    /\ Return(p)

SetupNext ==
    \/ \E p \in SeqProcs : SetupTierDir(p)
    \/ \E p \in SeqProcs : SetupTrashDir(p)
    \/ \E p \in SeqProcs : SetupReturn(p)
    \/ \E p \in SeqProcs : CommandReturn(p)
    \/ \E p \in SeqProcs : AddPhotoStart(p, TRUE)
    \/ \E p \in SeqProcs : AddPhotoUniquePath(p)
    \/ \E p \in SeqProcs : AddPhotoCopy(p)
    \/ \E p \in SeqProcs : AddPhotoInsert(p)
    \/ \E p \in SeqProcs : AddPhotoThumbnail(p)
    \/ \E p \in SeqProcs : PromoteStart(p, TRUE, "promote_photo_tier")
    \/ \E p \in SeqProcs : PromoteRename(p)
    \/ \E p \in SeqProcs : PromoteUpdate(p)
    \/ \E p \in SeqProcs : GenerateThumbnailStart(p, TRUE)
    \/ \E p \in SeqProcs : GenerateThumbnailDir(p)
    \/ \E p \in SeqProcs : GenerateThumbnailWork(p)
SetupSpec == SetupInit /\ [][SetupNext]_vars

(***************************************************************************)
(* The store while time passes.                                            *)
(***************************************************************************)
\* lib.rs:244-249  the system clock moves on by a second
Tick ==
    /\ now < MaxClock
    /\ now' = now + 1
    /\ UNCHANGED <<files, photos, thumbs, nextId, calls, faults, pc, loc, result, snap, prev>>
    /\ UNCHANGED <<libVars, bulk, envVars>>

ClockNext ==
    \/ Tick
    \/ \E p \in SeqProcs : Return(p)
    \/ \E p \in SeqProcs : AddPhotoStart(p, TRUE)
    \/ \E p \in SeqProcs : AddPhotoUniquePath(p)
    \/ \E p \in SeqProcs : AddPhotoCopy(p)
    \/ \E p \in SeqProcs : AddPhotoInsert(p)
    \/ \E p \in SeqProcs : AddPhotoThumbnail(p)
    \/ \E p \in SeqProcs : PromoteStart(p, TRUE, "promote_photo_tier")
    \/ \E p \in SeqProcs : PromoteRename(p)
    \/ \E p \in SeqProcs : PromoteUpdate(p)
    \/ \E p \in SeqProcs : DeleteStart(p, TRUE)
    \/ \E p \in SeqProcs : DeleteRemoveFile(p)
    \/ \E p \in SeqProcs : DeleteRowStep(p)
    \/ \E p \in SeqProcs : DeleteUniquePath(p)
    \/ \E p \in SeqProcs : DeleteRename(p)
    \/ \E p \in SeqProcs : DeleteUpdate(p)
ClockSpec == Init /\ [][ClockNext]_vars

(***************************************************************************)
(* Properties.                                                             *)
(***************************************************************************)
PromoteOps == {"promote_photo_tier", "promote_photo"}
AllPromoteOps == PromoteOps \cup {"ipc_promote_photo_tier", "ipc_promote_photo"}

\* caller p has a finished command of kind ops whose start state was recorded
Done(p, ops) == pc[p] = "done" /\ loc[p].op \in ops /\ snap[p].taken

\* the command of p has changed neither the media files nor the catalog
Untouched(p) == files = snap[p].files /\ photos = snap[p].photos

\* the rows with the given hash in a photos table
RowsWithHash(table, hash) == {i \in DOMAIN table : table[i].hash = hash}

\* the active rows of a photos table
ActiveIn(table) == {i \in DOMAIN table : table[i].deleted_at = NULL}

\* C1: when add_photo is called with bytes that a catalog row already has as
\* its hash (the second of two ingests of the same content, whatever the file
\* names are), the call returns the duplicate outcome unless reading the source
\* or the SELECT failed, in every case no file is written and no row changes,
\* and exactly one row carries that hash.
C1_IdempotentDedup ==
    \A p \in SeqProcs :
        (Done(p, {"add_photo"})
         /\ RowsWithHash(snap[p].photos, sha256_file(loc[p].bytes)) # {})
        => /\ result[p] \in {OkDuplicate, ErrRead, ErrDb}
           /\ Untouched(p)
           /\ Cardinality(RowsWithHash(photos, sha256_file(loc[p].bytes))) = 1

\* the same bytes were ingested before under another file name, and the second
\* ingest has returned the duplicate outcome
C1_Witness ==
    \E p \in SeqProcs :
        /\ Done(p, {"add_photo"})
        /\ result[p] = OkDuplicate
        /\ \E i \in DOMAIN photos :
              /\ photos[i].hash = loc[p].hash
              /\ photos[i].original_path # loc[p].name

\* C2: in every reachable state, also when add_photo calls interleave, at most
\* one active row exists per content hash.
C2_OneActiveRowPerHash ==
    \A i, j \in ActiveIn(photos) : photos[i].hash = photos[j].hash => i = j

\* C3: whenever no command is running, the storage_path of every active row
\* names an existing file.
C3_ActivePathExists ==
    (\A p \in SeqProcs : pc[p] \in {"idle", "done"})
    => \A i \in ActiveIn(photos) : exists(photos[i].storage_path)

\* C4: promote_photo_tier writes the catalog only after the move succeeded: a
\* call that returns the io error of the move has changed neither the files nor
\* the catalog, and a call that changed the catalog has returned success after
\* moving the file from the old path to the new one.
C4_CatalogAfterMove ==
    \A p \in SeqProcs :
        Done(p, PromoteOps)
        => /\ result[p] = ErrIo => Untouched(p)
           /\ photos # snap[p].photos
              => /\ loc[p].src \in DOMAIN snap[p].files
                 /\ files = [q \in (DOMAIN snap[p].files \ {loc[p].src}) \cup {loc[p].dst}
                               |-> IF q = loc[p].dst THEN snap[p].files[loc[p].src]
                                   ELSE snap[p].files[q]]
                 /\ result[p] = OkPromoted

\* a promotion whose move failed although the file was at the old path
C4_Witness ==
    \E p \in SeqProcs :
        /\ Done(p, PromoteOps)
        /\ result[p] = ErrIo
        /\ exists(loc[p].src)
        /\ loc[p].id \in DOMAIN photos
        /\ photos[loc[p].id].storage_path = loc[p].src

\* C5: every promotion entry point rejects a tier outside the fixed set with
\* the InvalidTier error and changes neither files nor catalog.
C5_InvalidTierRejected ==
    \A p \in SeqProcs :
        (Done(p, AllPromoteOps) /\ loc[p].tier \notin valid)
        => (result[p] = ErrInvalidTier /\ Untouched(p))

\* C6: promote_photo_tier with a valid tier, for an id that has no active row
\* (no row at all, or a soft-deleted row), returns NotFound and changes neither
\* files nor catalog (when the environment fails no operation of the call).
C6_NotFoundWithoutActiveRow ==
    \A p \in SeqProcs :
        (Done(p, PromoteOps)
         /\ loc[p].tier \in valid
         /\ loc[p].id \notin ActiveIn(snap[p].photos)
         /\ faults = snap[p].faults
         /\ result[p] # ErrDb)
        => (result[p] = ErrNotFound /\ Untouched(p))

\* C7: when a file of the promoted photo's name already exists in the target
\* tier directory, promote_photo_tier fails with an io error and that file
\* keeps its bytes (checked on the runs in which the environment fails no
\* operation).
C7_NoOverwrite ==
    \A p \in SeqProcs :
        (Done(p, PromoteOps)
         /\ loc[p].src \in DOMAIN snap[p].files
         /\ loc[p].dst \in DOMAIN snap[p].files
         /\ loc[p].dst # loc[p].src
         /\ faults = 0)
        => /\ result[p] = ErrIo
           /\ exists(loc[p].dst)
           /\ files[loc[p].dst] = snap[p].files[loc[p].dst]

\* the row of photo id in the state the last successful promotion started from
RowBefore(p) == prev[p].snap.photos[loc[p].id]

\* caller p has promoted an active photo from its tier to prev[p].tier and, as
\* its very next command, promoted it back; both calls succeeded
RoundTrip(p) ==
    /\ Done(p, PromoteOps)
    /\ result[p] = OkPromoted
    /\ prev[p].op \in PromoteOps
    /\ prev[p].result = OkPromoted
    /\ prev[p].id = loc[p].id
    /\ loc[p].id \in ActiveIn(prev[p].snap.photos)
    /\ loc[p].tier = RowBefore(p).tier

\* C8: promoting an active photo from tier A to tier B and straight back to A
\* ends with tier = A, a storage_path that names a file with the bytes the
\* photo's file had before, and the same set of row ids.
C8_RoundTrip ==
    \A p \in SeqProcs :
        RoundTrip(p)
        => /\ loc[p].id \in DOMAIN photos
           /\ photos[loc[p].id].tier = RowBefore(p).tier
           /\ exists(photos[loc[p].id].storage_path)
           /\ files[photos[loc[p].id].storage_path]
                 = prev[p].snap.files[RowBefore(p).storage_path]
           /\ DOMAIN photos = DOMAIN prev[p].snap.photos

\* a round trip through a tier other than the photo's own
C8_Witness ==
    \E p \in SeqProcs :
        /\ RoundTrip(p)
        /\ prev[p].tier # loc[p].tier
        /\ photos[loc[p].id].storage_path = RowBefore(p).storage_path

\* the path promote_photo_tier computes for photo id of the recorded start state
TargetBefore(p) ==
    join(tier_dir(loc[p].tier), snap[p].photos[loc[p].id].storage_path.name)

\* C9: for an active photo in tier A and a valid tier B other than A, with no
\* file of its name in B's directory, promote_photo_tier succeeds (when the
\* environment fails no operation of the call) and leaves tier = B and
\* storage_path = dir(B)/filename.
C9_AnyDirectionSucceeds ==
    \A p \in SeqProcs :
        (Done(p, PromoteOps)
         /\ loc[p].tier \in valid
         /\ loc[p].id \in ActiveIn(snap[p].photos)
         /\ loc[p].tier # snap[p].photos[loc[p].id].tier
         /\ TargetBefore(p) \notin DOMAIN snap[p].files
         /\ faults = snap[p].faults
         /\ result[p] # ErrDb)
        => /\ result[p] = OkPromoted
           /\ photos[loc[p].id].tier = loc[p].tier
           /\ photos[loc[p].id].storage_path = TargetBefore(p)

\* C10: the tier of every catalog row is one of the four fixed tier names, and
\* the tier a promotion is about to write has passed the validation.
C10_TierInFixedSet ==
    /\ \A i \in DOMAIN photos : photos[i].tier \in valid
    /\ \A p \in Procs : pc[p] = "promote_update" => loc[p].tier \in valid

\* a photo was promoted out of the intake tier, and a later promotion of it
\* with an invalid tier was rejected
C10_Witness ==
    \E p \in Procs :
        /\ pc[p] = "done"
        /\ result[p] = ErrInvalidTier
        /\ loc[p].id \in DOMAIN photos
        /\ photos[loc[p].id].tier \in valid \ {"bronze"}

\* the catalog is the recorded start catalog plus the one row of this ingest
OnlyNewRow(p) ==
    /\ loc[p].id \in DOMAIN photos \ DOMAIN snap[p].photos
    /\ DOMAIN photos = DOMAIN snap[p].photos \cup {loc[p].id}
    /\ \A i \in DOMAIN snap[p].photos : photos[i] = snap[p].photos[i]

\* C11: add_photo inserts the row only after the copy succeeded: a call in
\* which hashing or the copy failed (the source unreadable, vanished before
\* the copy, or the copy broken off part-way) returns an error and leaves the
\* catalog as it was, and a call that added a row has copied the source's
\* bytes to the row's storage_path before.
C11_RowAfterCopy ==
    \A p \in SeqProcs :
        Done(p, {"add_photo"})
        => /\ result[p] \in {ErrRead, ErrIo, ErrInvalidPath} => photos = snap[p].photos
           /\ photos # snap[p].photos
              => /\ OnlyNewRow(p)
                 /\ photos[loc[p].id].storage_path = loc[p].dst
                 /\ exists(loc[p].dst)
                 /\ files[loc[p].dst] = loc[p].bytes

\* a copy that broke off part-way: the partial file is there, the row is not
C11_Witness ==
    \E p \in SeqProcs :
        /\ Done(p, {"add_photo"})
        /\ result[p] = ErrIo
        /\ exists(loc[p].dst)
        /\ files[loc[p].dst] = PartialBytes
        /\ loc[p].id \notin DOMAIN photos

\* C12: once hash, copy and INSERT of add_photo have succeeded, the call
\* returns success and the catalog is the start catalog plus the new row,
\* whether generate_thumbnail produced a thumbnail or failed.
C12_ThumbnailIndependent ==
    \A p \in SeqProcs :
        (Done(p, {"add_photo"}) /\ loc[p].id \in DOMAIN photos)
        => /\ result[p] = OkAdded
           /\ OnlyNewRow(p)

\* an ingest of a file that is no image: the thumbnail step failed, the call
\* succeeded
C12_Witness ==
    \E p \in SeqProcs :
        /\ Done(p, {"add_photo"})
        /\ result[p] = OkAdded
        /\ loc[p].id \in DOMAIN photos
        /\ thumb_path(loc[p].id, IngestThumbSize) \notin thumbs
        /\ ThumbnailSource(loc[p].id) = {}

\* C13: after a successful non-permanent delete_photo of an active photo the
\* row still exists with deleted_at set, its storage_path is a path in the
\* trash directory at which a file with the photo's bytes exists, no file is
\* left at the previous path, and list_photos does not return the row.
C13_SoftDelete ==
    \A p \in SeqProcs :
        (Done(p, {"delete_photo"})
         /\ ~loc[p].permanent
         /\ result[p] = OkTrashed
         /\ loc[p].id \in ActiveIn(snap[p].photos))
        => /\ loc[p].id \in DOMAIN photos
           /\ photos[loc[p].id].deleted_at # NULL
           /\ photos[loc[p].id].storage_path.dir = trash_dir
           /\ exists(photos[loc[p].id].storage_path)
           /\ files[photos[loc[p].id].storage_path]
                 = snap[p].files[snap[p].photos[loc[p].id].storage_path]
           /\ ~exists(snap[p].photos[loc[p].id].storage_path)
           /\ loc[p].id \notin list_photos

\* a soft delete whose trash name was taken, so that the file went to a
\* numbered name
C13_Witness ==
    \E p \in SeqProcs :
        /\ Done(p, {"delete_photo"})
        /\ ~loc[p].permanent
        /\ result[p] = OkTrashed
        /\ loc[p].id \in ActiveIn(snap[p].photos)
        /\ photos[loc[p].id].storage_path.name.sfx # <<>>

\* C14: after delete_photo with permanent = true has returned success, no row
\* with that id exists and no file exists at the row's last storage_path, also
\* when the file was missing before the call.
C14_PermanentDelete ==
    \A p \in SeqProcs :
        (Done(p, {"delete_photo"}) /\ loc[p].permanent /\ result[p] = OkDeleted)
        => /\ loc[p].id \notin DOMAIN photos
           /\ ~exists(loc[p].src)

\* the rows in the trash
SoftDeleted == DOMAIN photos \ ActiveIn(photos)

\* C15: no query that returns a list of photos (list_photos,
\* list_photos_by_person, search_photos with any filter combination,
\* list_album_photos) returns a soft-deleted row.
C15_ListingsSkipSoftDeleted ==
    /\ list_photos \cap SoftDeleted = {}
    /\ \A person \in PersonIds : list_photos_by_person(person) \cap SoftDeleted = {}
    /\ \A filters \in SearchFilters : search_photos(filters) \cap SoftDeleted = {}
    /\ \A album \in AlbumIds : list_album_photos(album) \cap SoftDeleted = {}

\* caller p has a finished bulk command of kind ops
BulkDone(p, ops) == pc[p] = "bulk_done" /\ bulk[p].op \in ops

\* the effect of item k of the finished bulk command of p is still in place
EffectStands(p, k) ==
    LET id == bulk[p].ids[k]
        r == bulk[p].log[k].result
    IN /\ r = OkPromoted
          => /\ id \in DOMAIN photos
             /\ photos[id].tier = bulk[p].tier
             /\ photos[id].storage_path.dir = tier_dir(bulk[p].tier)
             /\ exists(photos[id].storage_path)
       /\ r = OkTrashed
          => /\ id \in DOMAIN photos
             /\ photos[id].deleted_at # NULL
             /\ photos[id].storage_path.dir = trash_dir
       /\ r = OkDeleted => id \notin DOMAIN photos

\* C16: promote_photos_bulk and delete_photos_bulk run the single-photo
\* command on every id of the list, in order: the call returns Ok, item k was
\* run on ids[k] for every k also after an item that failed, ok counts the
\* items that returned Ok, ok + fail is the number of ids, and the effect of
\* every item that succeeded is in place at the end.
C16_BulkIndependent ==
    \A p \in SeqProcs :
        BulkDone(p, {"promote_photos_bulk", "delete_photos_bulk"})
        => /\ result[p] = OkBulk
           /\ Len(bulk[p].log) = Len(bulk[p].ids)
           /\ \A k \in 1..Len(bulk[p].ids) : bulk[p].log[k].id = bulk[p].ids[k]
           /\ bulk[p].ok
                 = Cardinality({k \in 1..Len(bulk[p].log) : ~IsErr(bulk[p].log[k].result)})
           /\ bulk[p].ok + bulk[p].fail = Len(bulk[p].ids)
           /\ \A k \in 1..Len(bulk[p].ids) : EffectStands(p, k)

\* a bulk promotion whose first item failed and whose second item succeeded
C16_Witness ==
    \E p \in SeqProcs :
        /\ BulkDone(p, {"promote_photos_bulk"})
        /\ Len(bulk[p].log) = 2
        /\ IsErr(bulk[p].log[1].result)
        /\ bulk[p].log[2].result = OkPromoted
        /\ bulk[p].ok = 1
        /\ bulk[p].fail = 1

\* C17: every bulk command, assign_tag_bulk included, counts the error of an
\* item and goes on: it returns the counts, never an error, and has processed
\* every id of its list.
C17_BulkNeverPropagates ==
    \A p \in SeqProcs :
        BulkDone(p, {"promote_photos_bulk", "delete_photos_bulk", "assign_tag_bulk"})
        => /\ result[p] = OkBulk
           /\ Len(bulk[p].log) = Len(bulk[p].ids)

\* C19: when files of one name and pairwise different content are ingested
\* one after the other into the empty intake directory, every ingest that
\* succeeds adds one row, the rows have pairwise distinct storage_paths, and
\* the file at each row's storage_path holds the content of that photo.
C19_SameNameIngest ==
    /\ \A i, j \in DOMAIN photos :
          i # j => photos[i].storage_path # photos[j].storage_path
    /\ \A i \in DOMAIN photos :
          /\ exists(photos[i].storage_path)
          /\ sha256_file(files[photos[i].storage_path]) = photos[i].hash
    /\ \A p \in SeqProcs :
          (Done(p, {"add_photo"}) /\ result[p] = OkAdded)
          => Cardinality(DOMAIN photos) = Cardinality(DOMAIN snap[p].photos) + 1

\* three files named a.jpg are in the catalog, at a.jpg, a (1).jpg, a (2).jpg
C19_Witness ==
    /\ Cardinality(DOMAIN photos) = 3
    /\ {photos[i].storage_path.name.sfx : i \in DOMAIN photos} = {<<>>, <<1>>, <<2>>}
    /\ {photos[i].hash : i \in DOMAIN photos}
          = {sha256_file(f.bytes) : f \in SameNameSources}

\* the numbers 1..999 whose candidate of target is free in the directory
FreeNumbers(target) == {i \in 1..999 : ~exists(candidate(target, i))}

\* C18: unique_path(target) returns target when no file exists there; when
\* target exists and one of its candidates 1..999 is free, it returns the
\* free candidate of the smallest number, with target's directory, stem and
\* extension, and a path at which no file exists.
C18_UniquePath ==
    \A p \in SeqProcs :
        pc[p] = "unique_done"
        => LET target == loc[p].src
               ret == loc[p].dst
           IN /\ ~exists(target) => ret = target
              /\ (exists(target) /\ FreeNumbers(target) # {})
                 => /\ \E i \in FreeNumbers(target) :
                          /\ \A j \in FreeNumbers(target) : i <= j
                          /\ ret.name.sfx = Append(target.name.sfx, i)
                    /\ ret.dir = target.dir
                    /\ ret.name.stem = target.name.stem
                    /\ ret.name.ext = target.name.ext
                    /\ ~exists(ret)

\* target and its candidates 1 and 2 are taken, 3 is free and is returned
C18_Witness ==
    \E p \in SeqProcs :
        /\ pc[p] = "unique_done"
        /\ exists(loc[p].src)
        /\ FreeNumbers(loc[p].src) = (1..999) \ {1, 2, 4}
        /\ loc[p].dst = candidate(loc[p].src, 3)

\* C20: when target and all candidates 1..999 exist, unique_path returns
\* target itself; it does so also when the name numbered 1000 is free, which
\* it never probes.
C20_Fallback ==
    \A p \in SeqProcs :
        (pc[p] = "unique_done" /\ exists(loc[p].src) /\ FreeNumbers(loc[p].src) = {})
        => loc[p].dst = loc[p].src

\* the directory is full up to 999 and the name numbered 1000 is free
C20_Witness ==
    \E p \in SeqProcs :
        /\ pc[p] = "unique_done"
        /\ exists(loc[p].src)
        /\ FreeNumbers(loc[p].src) = {}
        /\ ~exists(candidate(loc[p].src, 1000))
        /\ loc[p].dst = loc[p].src

\* C26: the dedup lookup of add_photo considers active rows only: an add_photo
\* of bytes whose only catalog rows are soft-deleted, with no failing read,
\* SELECT or write, is not reported as a duplicate; it returns the added
\* outcome, a file with the bytes is in the intake tier and a new active row
\* carries the hash.
C26_DedupActiveOnly ==
    \A p \in SeqProcs :
        (Done(p, {"add_photo"})
         /\ RowsWithHash(snap[p].photos, loc[p].hash) # {}
         /\ RowsWithHash(snap[p].photos, loc[p].hash) \cap ActiveIn(snap[p].photos) = {}
         /\ faults = snap[p].faults
         /\ result[p] \notin {ErrRead, ErrDb})
        => /\ result[p] = OkAdded
           /\ \E i \in ActiveIn(photos) \ DOMAIN snap[p].photos :
                 /\ photos[i].hash = loc[p].hash
                 /\ photos[i].storage_path.dir = tier_dir("bronze")
                 /\ exists(photos[i].storage_path)
                 /\ files[photos[i].storage_path] = loc[p].bytes

\* C27: delete_photo, permanent or not, on an id that has no active row (no
\* row at all, or a soft-deleted one) returns NotFound unless the SELECT
\* failed, and changes neither the files nor the catalog: a second soft delete
\* does not move the trash file again.
C27_DeleteNeedsActiveRow ==
    \A p \in SeqProcs :
        (Done(p, {"delete_photo"}) /\ loc[p].id \notin ActiveIn(snap[p].photos))
        => /\ result[p] \in {ErrNotFound, ErrDb}
           /\ Untouched(p)

\* C28: every step that changes a catalog row sets the row's updated_at to
\* the time of the step: the UPDATE of promote_photo_tier and the UPDATE of the
\* non-permanent delete_photo.
C28_UpdatedAtBumped ==
    [][\A i \in DOMAIN photos \cap DOMAIN photos' :
          photos'[i] # photos[i] => photos'[i].updated_at = now]_vars

\* the fields of a catalog row that no command may change
Immutable == {"id", "original_path", "hash", "created_at"}

\* rows r and s agree on every field but those in fields
SameBut(r, s, fields) == \A f \in (DOMAIN r) \ fields : r[f] = s[f]

\* C29: while and after a command runs, every row that was in the catalog when
\* it started and still is has its id, original_path, hash and created_at;
\* promote_photo_tier changes at most storage_path, tier and updated_at of its
\* target row, the non-permanent delete_photo at most storage_path, deleted_at
\* and updated_at of its target row, and neither adds, removes or changes
\* another row.
C29_RowFrame ==
    \A p \in SeqProcs :
        snap[p].taken
        => /\ \A i \in DOMAIN photos \cap DOMAIN snap[p].photos :
                 \A f \in Immutable : photos[i][f] = snap[p].photos[i][f]
           /\ loc[p].op = "promote_photo_tier"
              => /\ DOMAIN photos = DOMAIN snap[p].photos
                 /\ \A i \in DOMAIN photos :
                       SameBut(photos[i], snap[p].photos[i],
                               IF i = loc[p].id
                               THEN {"storage_path", "tier", "updated_at"} ELSE {})
           /\ (loc[p].op = "delete_photo" /\ ~loc[p].permanent)
              => /\ DOMAIN photos = DOMAIN snap[p].photos
                 /\ \A i \in DOMAIN photos :
                       SameBut(photos[i], snap[p].photos[i],
                               IF i = loc[p].id
                               THEN {"storage_path", "deleted_at", "updated_at"} ELSE {})

\* a promotion, later than the ingest, of one of two catalogued photos has
\* succeeded and has moved the row's updated_at away from its created_at
C29_Witness ==
    \E p \in SeqProcs :
        /\ Done(p, {"promote_photo_tier"})
        /\ result[p] = OkPromoted
        /\ Cardinality(DOMAIN photos) = 2
        /\ photos[loc[p].id].updated_at # photos[loc[p].id].created_at
        /\ photos[loc[p].id].created_at = snap[p].photos[loc[p].id].created_at

\* the cache artifacts of photo id
Artifacts(id) == {t \in thumbs : t.name.id = id}

\* C22: the cache path of generate_thumbnail depends on the photo id only, so
\* at most one cache artifact exists per id after any number of calls with any
\* max_size; and a generate_thumbnail call, at each of its steps and whatever
\* it returns, leaves the catalog rows and the files of the media store as
\* they were when it started.
C22_ThumbnailCache ==
    /\ \A id \in PhotoIds : Cardinality(Artifacts(id)) <= 1
    /\ \A p \in SeqProcs :
          (snap[p].taken /\ loc[p].op = "generate_thumbnail") => Untouched(p)

\* generate_thumbnail with max_size 256 has succeeded for a photo whose ingest
\* had cached a thumbnail of size 512 and which was promoted since
C22_Witness ==
    \E p \in SeqProcs :
        /\ Done(p, {"generate_thumbnail"})
        /\ result[p] = OkThumbnail
        /\ loc[p].max_dim = 256
        /\ faults = 0
        /\ photos[loc[p].id].tier # "bronze"
        /\ Artifacts(loc[p].id) = {loc[p].dst}

\* C30: a creation of the trash root or of the thumbnail cache root that fails
\* otherwise than with AlreadyExists is propagated: a setup in which a
\* directory creation failed that way does not return Ok, and neither does a
\* generate_thumbnail call in which one did.
C30_CreationFailurePropagates ==
    \A p \in SeqProcs :
        /\ (pc[p] = "done" /\ loc[p].op = "run" /\ faults > 0) => result[p] # OkSetup
        /\ (Done(p, {"generate_thumbnail"}) /\ faults > snap[p].faults)
           => IsErr(result[p])

\* the integer nearest to n / d, a tie rounded up
RoundDiv(n, d) == (2 * n + d) \div (2 * d)

\* C21: a source of width W and height H with W > H and W > max_dim gives a
\* thumbnail of width max_dim and height round(H * max_dim / W); a source with
\* W <= max_dim and H <= max_dim keeps its dimensions.
C21_ResizeDimensions ==
    \A p \in SeqProcs :
        pc[p] = "resize_done"
        => LET W == loc[p].w
               H == loc[p].h
               max_dimension == loc[p].max_dim
           IN /\ (W > H /\ W > max_dimension)
                 => out = <<max_dimension, RoundDiv(H * max_dimension, W)>>
              /\ (W <= max_dimension /\ H <= max_dimension) => out = <<W, H>>

\* the members of a group, and the groups a photo is in
Members(g) == {g[k] : k \in DOMAIN g}
GroupsOf(i) == {k \in DOMAIN out : i \in Members(out[k])}

\* C23: when detect_duplicates returns its groups, two active photos are in
\* one group exactly when the bytes now in their files are equal, whatever
\* hash the catalog stores; every group has at least 2 members; and no
\* soft-deleted photo is in a group.
C23_DuplicateGroups ==
    \A p \in SeqProcs :
        (Done(p, {"detect_duplicates"}) /\ result[p] = OkGroups)
        => /\ \A i, j \in ActiveIn(photos) :
                 i # j => ((GroupsOf(i) \cap GroupsOf(j) # {})
                           <=> files[photos[i].storage_path] = files[photos[j].storage_path])
           /\ \A k \in DOMAIN out : Len(out[k]) >= 2
           /\ \A k \in DOMAIN out : Members(out[k]) \cap SoftDeleted = {}

\* str::split('_') on the last path component: the file name up to its first
\* underscore
FilenamePrefix(path) ==
    IF Len(split_underscore(path.name.stem)) > 1
    THEN <<split_underscore(path.name.stem)[1], <<>>, "">>
    ELSE <<path.name.stem, path.name.sfx, path.name.ext>>

\* the groups of the walk C24 describes, the photos taken in the order walk
BurstsByTime(walk) ==
    BurstLoop([k \in DOMAIN walk |->
                  [id |-> walk[k],
                   ts |-> modified(photos[walk[k]].storage_path),
                   prefix |-> FilenamePrefix(photos[walk[k]].storage_path)]],
              1, <<>>, <<>>, [id |-> 0, ts |-> 0, prefix |-> <<>>])

\* C24: the groups detect_bursts returns are those of a walk over the photos
\* in ascending modification-time order in which a photo joins the open group
\* exactly when its modification time is at most 10 seconds after the previous
\* photo's and the two file names have the same prefix up to the first
\* underscore, and otherwise closes the group and opens a new one.
C24_BurstWalk ==
    \A p \in SeqProcs :
        (Done(p, {"detect_bursts"}) /\ result[p] = OkGroups)
        => \E walk \in RowOrders(DOMAIN photos,
                                 [i \in DOMAIN photos |-> modified(photos[i].storage_path)]) :
              out = BurstsByTime(walk)

\* the distance of two times
Apart(s, t) == IF s >= t THEN s - t ELSE t - s

\* the catalog of the scenario: IMG_001, IMG_002, IMG_999 in one tier,
\* modified at 0 s, 5 s and 5000 s
BurstScenario ==
    /\ \A i \in DOMAIN photos :
          /\ photos[i].storage_path.dir = tier_dir("bronze")
          /\ photos[i].storage_path.name.stem \in {"IMG_001", "IMG_002", "IMG_999"}
    /\ modified(photos[1].storage_path) = 0
    /\ modified(photos[2].storage_path) = 5
    /\ modified(photos[3].storage_path) = 5000

\* C25: every group detect_bursts returns has at least 2 members, no photo is
\* in two groups, consecutive members of a group have modification times at
\* most 10 seconds apart, and the scenario of IMG_001, IMG_002, IMG_999 at
\* 0 s, 5 s, 5000 s gives the one group of IMG_001 and IMG_002.
C25_BurstGroups ==
    \A p \in SeqProcs :
        (Done(p, {"detect_bursts"}) /\ result[p] = OkGroups)
        => /\ \A k \in DOMAIN out : Len(out[k]) >= 2
           /\ \A i \in DOMAIN photos : Cardinality(GroupsOf(i)) <= 1
           /\ \A k \in DOMAIN out : \A n \in 1..(Len(out[k]) - 1) :
                 Apart(modified(photos[out[k][n]].storage_path),
                       modified(photos[out[k][n + 1]].storage_path)) <= 10
           /\ BurstScenario => (Len(out) = 1 /\ Members(out[1]) = {1, 2})

\* C38: whenever resize_keep_aspect resizes (the source, of width and height at
\* least 1, exceeds max_dim on a side), both computed dimensions are at least
\* 1 and at most max_dim.
C38_ResizeWithinBounds ==
    \A p \in SeqProcs :
        (pc[p] = "resize_done"
         /\ ~(loc[p].w <= loc[p].max_dim /\ loc[p].h <= loc[p].max_dim))
        => /\ 1 <= out[1] /\ out[1] <= loc[p].max_dim
           /\ 1 <= out[2] /\ out[2] <= loc[p].max_dim

\* C34: in every state a single caller reaches with add_photo,
\* promote_photo_tier and delete_photo calls, no two catalog rows have the
\* same storage_path.
C34_DistinctStoragePaths ==
    \A i, j \in DOMAIN photos :
        photos[i].storage_path = photos[j].storage_path => i = j

\* the files under a tier directory or the trash root that no catalog row has
\* as its storage_path
Orphans ==
    {q \in DOMAIN files :
        /\ q.dir \in {tier_dir(tier) : tier \in valid} \cup {trash_dir}
        /\ \A i \in DOMAIN photos : photos[i].storage_path # q}

\* C35: whenever no command is running, also after commands that returned an
\* error, every file under a tier directory or the trash root is the
\* storage_path of a catalog row.
C35_NoOrphans ==
    (\A p \in SeqProcs : pc[p] \in {"idle", "done"}) => Orphans = {}

\* C31: when two concurrent add_photo calls for different content with the
\* same filename obtained the same destination from unique_path, at most one of
\* them succeeds and no two rows share a storage_path.
C31_LoudCopyRace ==
    \A p, q \in Procs :
        (/\ p # q
         /\ pc[p] = "done" /\ pc[q] = "done"
         /\ loc[p].op = "add_photo" /\ loc[q].op = "add_photo"
         /\ loc[p].dst # NoPath /\ loc[p].dst = loc[q].dst
         /\ loc[p].bytes # loc[q].bytes
         /\ faults = 0)
        => /\ ~(result[p] = OkAdded /\ result[q] = OkAdded)
           /\ \A i, j \in DOMAIN photos :
                  photos[i].storage_path = photos[j].storage_path => i = j

Quiescent ==
    \A p \in Procs : pc[p] \in {"idle", "done"}

\* C32: under every interleaving of concurrent promote_photo_tier, delete_photo
\* and add_photo calls without an injected failure, once all calls have
\* returned the storage_path of every active row names an existing file whose
\* content hash equals the row's stored hash.
C32_ActiveRowsPointAtOwnFile ==
    (Quiescent /\ faults = 0)
    => \A i \in DOMAIN photos :
           photos[i].deleted_at = NULL
           => /\ exists(photos[i].storage_path)
              /\ sha256_file(files[photos[i].storage_path]) = photos[i].hash

(***************************************************************************)
(* Soft deletes racing on the trash root: delete_photo, lib.rs:542-580,    *)
(* called by two callers on a catalog of two photos.                       *)
(***************************************************************************)
\* the catalog after two ingests (lib.rs:294-344) and promotions
\* (lib.rs:449-479): photo 1 is a.jpg in tier t1, photo 2 is n2.jpg with other
\* bytes in tier t2
TrashCatalog(t1, t2, n2) ==
    LET a == [stem |-> "a", sfx |-> <<>>, ext |-> "jpg"]
        b == [stem |-> n2, sfx |-> <<>>, ext |-> "jpg"] IN
    <<[NewRow(1, a, join(tier_dir(t1), a), sha256_file(ImageBytes), 0)
          EXCEPT !.tier = t1],
      [NewRow(2, b, join(tier_dir(t2), b), sha256_file(OtherBytes), 0)
          EXCEPT !.tier = t2]>>

TrashInit ==
    /\ \E t1 \in valid, t2 \in valid, n2 \in {"a", "b"} :
          /\ TrashCatalog(t1, t2, n2)[1].storage_path
                 # TrashCatalog(t1, t2, n2)[2].storage_path
          /\ photos = TrashCatalog(t1, t2, n2)
          /\ files = [q \in {TrashCatalog(t1, t2, n2)[i].storage_path : i \in 1..2}
                         |-> IF q = TrashCatalog(t1, t2, n2)[1].storage_path
                             THEN ImageBytes ELSE OtherBytes]
    /\ thumbs = {thumb_path(i, IngestThumbSize) : i \in 1..2}
    /\ nextId = 3
    /\ now = 0
    /\ calls = 0
    /\ faults = 0
    /\ pc = [p \in Procs |-> "idle"]
    /\ loc = [p \in Procs |-> NoLoc]
    /\ result = [p \in Procs |-> ""]
    /\ snap = [p \in Procs |-> NoSnap]
    /\ prev = [p \in Procs |-> NoPrev]
    /\ album_photos = {}
    /\ photo_tags = {}
    /\ faces = {}
    /\ bulk = [p \in Procs |-> NoBulk]
    /\ dirs = SetupDirs \cup {thumbs_dir}
    /\ mtime = <<>>
    /\ out = <<>>
    /\ db = NoDb

TrashNext ==
    \/ \E p \in Procs : Return(p)
    \/ \E p \in Procs : DeleteStart(p, FALSE)
    \/ \E p \in Procs : DeleteRemoveFile(p)
    \/ \E p \in Procs : DeleteRowStep(p)
    \/ \E p \in Procs : DeleteUniquePath(p)
    \/ \E p \in Procs : DeleteRename(p)
    \/ \E p \in Procs : DeleteUpdate(p)
TrashSpec == TrashInit /\ [][TrashNext]_vars

\* C39: when two non-permanent delete_photo calls for two different photos
\* whose files have one filename in different tier directories both return
\* Ok, the two rows have distinct trash paths and each path holds the file of
\* its own photo.
C39_TrashMovesKeepBothFiles ==
    \A p, q \in Procs :
        (/\ p # q
         /\ pc[p] = "done" /\ pc[q] = "done"
         /\ loc[p].op = "delete_photo" /\ loc[q].op = "delete_photo"
         /\ ~loc[p].permanent /\ ~loc[q].permanent
         /\ result[p] = OkTrashed /\ result[q] = OkTrashed
         /\ loc[p].id # loc[q].id
         /\ loc[p].src.name = loc[q].src.name
         /\ loc[p].src.dir # loc[q].src.dir
         /\ faults = 0)
        => /\ photos[loc[p].id].storage_path # photos[loc[q].id].storage_path
           /\ \A i \in {loc[p].id, loc[q].id} :
                  /\ photos[i].storage_path.dir = trash_dir
                  /\ exists(photos[i].storage_path)
                  /\ sha256_file(files[photos[i].storage_path]) = photos[i].hash

(***************************************************************************)
(* bulk_add_photos, lib.rs:950-970: add_photo on each path of a list, the  *)
(* outcome of each item told from its message.                             *)
(***************************************************************************)
\* the stem of a source file whose name contains the text "Duplicate photo"
DuplicatePhotoStem == "Duplicate photo"

\* the files a caller lists: those of Sources and one named
\* "Duplicate photo.jpg" with a content of its own
BulkAddSources ==
    Sources \cup {[stem |-> DuplicatePhotoStem, ext |-> "jpg", bytes |-> ThirdBytes]}

BulkAddPaths == UNION {[1..n -> BulkAddSources] : n \in 0..MaxBulk}

\* lib.rs:341-344  the message of add_photo: the fixed text of r, followed for
\* an added photo by final_path
AddPhotoMessage(r, final_path) ==
    [text |-> r, path |-> IF r = OkAdded THEN final_path ELSE NoPath]

\* lib.rs:959  msg.contains("Duplicate photo"): the text occurs in the fixed
\* text of the duplicate message or in the path that follows "Photo added
\* successfully: "
msg_contains_duplicate(msg) ==
    \/ msg.text = OkDuplicate
    \/ msg.path # NoPath /\ msg.path.name.stem = DuplicatePhotoStem

\* lib.rs:955-965  match add_photo(..).await { Ok(msg) => if msg.contains(..)
\* { skipped += 1 } else { added += 1 }, Err(_) => skipped += 1 }
BulkAddMatch(b, l, r) ==
    LET isAdded == ~IsErr(r) /\ ~msg_contains_duplicate(AddPhotoMessage(r, l.dst)) IN
    [b EXCEPT !.i = @ + 1,
              !.ok = IF isAdded THEN @ + 1 ELSE @,
              !.fail = IF isAdded THEN @ ELSE @ + 1,
              !.log = Append(@, [id |-> l.id, result |-> r])]

\* lib.rs:950-954  let mut added = 0; let mut skipped = 0; for p in file_paths
BulkAddPhotosStart(p, seq) ==
    \E paths \in BulkAddPaths :
        /\ nextId + Len(paths) <= MaxPhotos + 1
        /\ BulkStart(p, seq, [NoBulk EXCEPT !.op = "bulk_add_photos",
                                            !.ids = paths, !.i = 1])

\* lib.rs:956  add_photo(app.clone(), p).await
BulkAddPhotosItem(p) ==
    /\ BulkHasNext(p, "bulk_add_photos")
    /\ nextId' = nextId + 1
    /\ AddPhotoBegin(p, nextId, bulk[p].ids[bulk[p].i])
    /\ UNCHANGED <<files, photos, thumbs, now, calls, faults, snap, prev,
                   libVars, bulk, envVars>>

\* add_photo has returned to the loop
BulkAddPhotosCollect(p) ==
    /\ pc[p] = "done"
    /\ bulk[p].op = "bulk_add_photos"
    /\ bulk' = [bulk EXCEPT ![p] = BulkAddMatch(bulk[p], loc[p], result[p])]
    /\ pc' = [pc EXCEPT ![p] = "bulk_next"]
    /\ result' = [result EXCEPT ![p] = ""]
    /\ loc' = [loc EXCEPT ![p] = NoLoc]
    /\ UNCHANGED <<files, photos, thumbs, nextId, now, calls, faults, snap, prev, libVars,
                   envVars>>

BulkAddNext ==
    \/ \E p \in SeqProcs : BulkAddPhotosStart(p, TRUE)
    \/ \E p \in SeqProcs : BulkAddPhotosItem(p)
    \/ \E p \in SeqProcs : AddPhotoUniquePath(p)
    \/ \E p \in SeqProcs : AddPhotoCopy(p)
    \/ \E p \in SeqProcs : AddPhotoInsert(p)
    \/ \E p \in SeqProcs : AddPhotoThumbnail(p)
    \/ \E p \in SeqProcs : BulkAddPhotosCollect(p)
    \/ \E p \in SeqProcs : BulkFinish(p)
    \/ \E p \in SeqProcs : BulkReturn(p)
BulkAddSpec == Init /\ [][BulkAddNext]_vars

\* the number of catalog rows the running command of p has inserted
RowsInserted(p) ==
    Cardinality(DOMAIN photos) - Cardinality(DOMAIN snap[p].photos)

\* C36: when bulk_add_photos returns, added equals the number of catalog rows
\* the call inserted, skipped equals the number of the other paths, and
\* added + skipped equals the number of paths, whatever the filenames.
C36_BulkAddCounts ==
    \A p \in SeqProcs :
        (pc[p] = "bulk_done" /\ bulk[p].op = "bulk_add_photos")
        => /\ bulk[p].ok = RowsInserted(p)
           /\ bulk[p].fail = Len(bulk[p].ids) - RowsInserted(p)
           /\ bulk[p].ok + bulk[p].fail = Len(bulk[p].ids)

(***************************************************************************)
(* The tier directory helpers of fs.rs: create_tier_dir, fs.rs:9-12, and   *)
(* move_file_to_tier, fs.rs:14-17.  Each is one call of the standard       *)
(* library, hence one step.                                                *)
(***************************************************************************)
\* Ok(()) of std::io::Result<()>
OkUnit == "Ok(())"

\* the tier arguments: any string names a tier, two are enough
FsTiers == {"silver", "gold"}

\* the src arguments: a file beside the tier directories, one in each tier
\* directory, and one elsewhere
FsPaths ==
    { join(<<"data", "media">>, [stem |-> "a", sfx |-> <<>>, ext |-> "jpg"]),
      join(tier_dir("silver"), [stem |-> "a", sfx |-> <<>>, ext |-> "jpg"]),
      join(tier_dir("gold"), [stem |-> "a", sfx |-> <<>>, ext |-> "jpg"]),
      join(<<"inbox">>, [stem |-> "b", sfx |-> <<>>, ext |-> "jpg"]) }

\* the disk the helpers are called on: any of the paths may hold a file, the
\* directory of a file exists, a tier directory may exist or not
FsInit ==
    /\ \E S \in SUBSET FsPaths, D \in SUBSET {tier_dir(tier) : tier \in FsTiers} :
          /\ files \in [S -> {ImageBytes, OtherBytes}]
          /\ dirs = D \cup {q.dir : q \in S}
    /\ photos = <<>>
    /\ thumbs = {}
    /\ nextId = 1
    /\ now = 0
    /\ calls = 0
    /\ faults = 0
    /\ pc = [p \in Procs |-> "idle"]
    /\ loc = [p \in Procs |-> NoLoc]
    /\ result = [p \in Procs |-> ""]
    /\ snap = [p \in Procs |-> NoSnap]
    /\ prev = [p \in Procs |-> NoPrev]
    /\ album_photos = {}
    /\ photo_tags = {}
    /\ faces = {}
    /\ bulk = [p \in Procs |-> NoBulk]
    /\ mtime = <<>>
    /\ out = <<>>
    /\ db = NoDb

\* a helper is called: the disk before the call is recorded
FsCall(p) ==
    /\ pc[p] = "idle"
    /\ calls < MaxSeqCalls
    /\ calls' = calls + 1
    /\ snap' = [snap EXCEPT ![p] = TakeSnap(TRUE)]
    /\ UNCHANGED <<photos, thumbs, nextId, now, prev, libVars, bulk, mtime, out, db>>

\* fs.rs:10-11  create_dir_all(format!("data/media/{}", tier))
CreateTierDir(p) ==
    /\ FsCall(p)
    /\ \E tier \in FsTiers :
          /\ loc' = [loc EXCEPT ![p] = [NoLoc EXCEPT !.op = "create_tier_dir",
                        !.tier = tier]]
          /\ \/ \* the directory is there or is made
                /\ dirs' = dirs \cup {tier_dir(tier)}
                /\ Finish(p, OkUnit)
                /\ UNCHANGED faults
             \/ \* the directory is absent and cannot be made
                /\ tier_dir(tier) \notin dirs
                /\ Fault
                /\ Finish(p, ErrIo)
                /\ UNCHANGED dirs
    /\ UNCHANGED files

\* a destination that leaves the tier out
move_file_dest_untiered(src, tier) == join(<<"data", "media">>, src.name)

\* fs.rs:15  format!("data/media/{}/{}", tier, file_name of src)
move_file_dest(src, tier) == join(tier_dir(tier), src.name)

\* fs.rs:14-17  move_file_to_tier(src, tier)
MoveFileToTier(p) ==
    /\ FsCall(p)
    /\ \/ \* Path::new(src).file_name() is None: unwrap panics
          /\ loc' = [loc EXCEPT ![p] = [NoLoc EXCEPT !.op = "move_file_to_tier"]]
          /\ Finish(p, Panic)
          /\ UNCHANGED <<files, faults>>
       \/ \E src \in FsPaths, tier \in FsTiers :
          /\ loc' = [loc EXCEPT ![p] = [NoLoc EXCEPT !.op = "move_file_to_tier",
                        !.src = src, !.tier = tier,
                        !.dst = move_file_dest(src, tier)]]
          /\ \/ \* src or the directory of dest is missing
                /\ ~exists(src) \/ move_file_dest(src, tier).dir \notin dirs
                /\ Finish(p, ErrIo)
                /\ UNCHANGED <<files, faults>>
             \/ \* the rename fails for another reason
                /\ exists(src) /\ move_file_dest(src, tier).dir \in dirs
                /\ Fault
                /\ Finish(p, ErrIo)
                /\ UNCHANGED files
             \/ /\ exists(src) /\ move_file_dest(src, tier).dir \in dirs
                /\ files' = fs_rename(src, move_file_dest(src, tier))
                /\ Finish(p, OkUnit)
                /\ UNCHANGED faults
    /\ UNCHANGED dirs

FsNext ==
    \/ \E p \in SeqProcs : Return(p)
    \/ \E p \in SeqProcs : CreateTierDir(p)
    \/ \E p \in SeqProcs : MoveFileToTier(p)
FsSpec == FsInit /\ [][FsNext]_vars

\* the helper called by p has returned r
FsReturned(p, op, r) ==
    pc[p] = "done" /\ loc[p].op = op /\ result[p] = r

\* what C33 says of a move that returned Ok, but for the file left at src
MovedTo(p) ==
    LET dest == join(tier_dir(loc[p].tier), loc[p].src.name) IN
    /\ exists(dest)
    /\ files[dest] = snap[p].files[loc[p].src]

\* what C33 says of the other outcomes: an error leaves the disk as it was,
\* and create_tier_dir succeeds, barring an IO failure, whether or not the
\* directory was there
OtherFsOutcomes(p) ==
    /\ FsReturned(p, "move_file_to_tier", ErrIo) => files = snap[p].files
    /\ (pc[p] = "done" /\ loc[p].op = "create_tier_dir" /\ faults = snap[p].faults)
       => result[p] = OkUnit /\ tier_dir(loc[p].tier) \in dirs

OkDb == "Ok(Db)"

\* db.rs:47, 54  the URLs of the tests: one that connects and one that cannot
DbUrls == {"sqlite:pictallion.db", "invalid_url"}

\* db.rs:20  the table whose presence marks a migrated database
MarkerTable == "users"

\* db.rs:26-28  the contents src-tauri/migrations/001_initial.sql may have:
\* one CREATE TABLE statement per table, the marker table among them, in
\* any order
MigrationFiles ==
    {m \in [1..3 -> {MarkerTable, "photos", "albums"}] :
        \A i, j \in 1..3 : m[i] = m[j] => i = j}

DbInit ==
    /\ files = <<>>
    /\ photos = <<>>
    /\ thumbs = {}
    /\ nextId = 1
    /\ now = 0
    /\ calls = 0
    /\ faults = 0
    /\ pc = [p \in Procs |-> "idle"]
    /\ loc = [p \in Procs |-> NoLoc]
    /\ result = [p \in Procs |-> ""]
    /\ snap = [p \in Procs |-> NoSnap]
    /\ prev = [p \in Procs |-> NoPrev]
    /\ album_photos = {}
    /\ photo_tags = {}
    /\ faces = {}
    /\ bulk = [p \in Procs |-> NoBulk]
    /\ dirs = SetupDirs
    /\ mtime = <<>>
    /\ out = <<>>
    /\ \E m \in MigrationFiles : db = [NoDb EXCEPT !.migration_sql = m]

DbFrame ==
    UNCHANGED <<files, photos, thumbs, nextId, now, calls, snap, prev, libVars, bulk,
                dirs, mtime, out>>

\* db.rs:20-24  SELECT COUNT(*) FROM sqlite_master WHERE type='table' AND
\* name='users', compared with 0
table_exists(applied) == MarkerTable \in applied

\* db.rs:13-17  a caller invokes Db::new: SqlitePool::connect(database_url)
DbNewStart(p) ==
    /\ pc[p] = "idle"
    /\ calls < MaxSeqCalls
    /\ calls' = calls + 1
    /\ snap' = [snap EXCEPT ![p] = TakeSnap(TRUE)]
    /\ loc' = [loc EXCEPT ![p] = [NoLoc EXCEPT !.op = "Db::new"]]
    /\ \E url \in DbUrls :
          /\ db' = [db EXCEPT !.url = url, !.before = db.applied, !.executed = 0]
          /\ \/ \* the URL cannot be parsed or opened
                /\ url = "invalid_url"
                /\ Finish(p, ErrDb)
             \/ \* the database of a good URL cannot be opened this time
                /\ url # "invalid_url"
                /\ Finish(p, ErrDb)
             \/ /\ url # "invalid_url"
                /\ Goto(p, "db_marker")
    /\ UNCHANGED <<files, photos, thumbs, nextId, now, faults, prev, libVars, bulk,
                   dirs, mtime, out>>

\* db.rs:19-26  the marker query, and read_to_string of the migration file when
\* the marker is absent
DbNewMarker(p) ==
    /\ pc[p] = "db_marker"
    /\ \/ \* the query fails
          /\ Finish(p, ErrDb)
          /\ UNCHANGED loc
       \/ /\ table_exists(db.applied)
          /\ Finish(p, OkDb)
          /\ UNCHANGED loc
       \/ \* the migration file cannot be read
          /\ ~table_exists(db.applied)
          /\ Finish(p, ErrIo)
          /\ UNCHANGED loc
       \/ /\ ~table_exists(db.applied)
          /\ loc' = [loc EXCEPT ![p].i = 1]
          /\ Goto(p, "db_exec")
    /\ UNCHANGED <<db, faults>>
    /\ DbFrame

\* db.rs:28-33  one statement of the migration; Ok(Db(pool)) after the last
DbNewExec(p) ==
    /\ pc[p] = "db_exec"
    /\ LET stmt == db.migration_sql[loc[p].i]
           next == IF loc[p].i = Len(db.migration_sql)
                   THEN Finish(p, OkDb) /\ UNCHANGED loc
                   ELSE Goto(p, "db_exec") /\ loc' = [loc EXCEPT ![p].i = @ + 1] IN
          \/ \* the statement fails and `?` returns the error
             /\ Fault
             /\ Finish(p, ErrDb)
             /\ db' = [db EXCEPT !.executed = @ + 1]
             /\ UNCHANGED loc
          \/ \* CREATE TABLE of a table that exists: an error
             /\ stmt \in db.applied
             /\ Finish(p, ErrDb)
             /\ db' = [db EXCEPT !.executed = @ + 1]
             /\ UNCHANGED <<loc, faults>>
          \/ \* the table is created (or, with IF NOT EXISTS, is there already)
             /\ db' = [db EXCEPT !.applied = @ \cup {stmt}, !.executed = @ + 1]
             /\ next
             /\ UNCHANGED faults
    /\ DbFrame

DbNext ==
    \/ \E p \in SeqProcs : Return(p)
    \/ \E p \in SeqProcs : DbNewStart(p)
    \/ \E p \in SeqProcs : DbNewMarker(p)
    \/ \E p \in SeqProcs : DbNewExec(p)
DbSpec == DbInit /\ [][DbNext]_vars

\* C37: whenever Db::new returns Ok every statement of the migration has been
\* applied to the database, also after an earlier Db::new failed part-way; a
\* Db::new on a migrated database executes no migration statement; Db::new
\* returns an error for a URL it cannot connect to.
C37_OkMeansMigrated ==
    \A p \in SeqProcs :
        (pc[p] = "done" /\ loc[p].op = "Db::new")
        => /\ result[p] = OkDb
              => \A i \in DOMAIN db.migration_sql : db.migration_sql[i] \in db.applied
           /\ (\A i \in DOMAIN db.migration_sql : db.migration_sql[i] \in db.before)
              => db.executed = 0
           /\ db.url = "invalid_url" => result[p] = ErrDb

====
